---------------------------- MODULE Spec2Model ----------------------------
(***************************************************************************)
(* A model of the flatland grid simulator.                                 *)
(*                                                                         *)
(*   SpecResolve  the movement resolution engine of simulation/conflict.rs *)
(*                (reduce_potential_moves, resolve_conflicts,              *)
(*                resolve_orphans, MoveConflict, PotentialMoves).          *)
(*   SpecTick     State::update of simulation.rs: update_position,         *)
(*                update_saturations, update_elements.                     *)
(*                                                                         *)
(* Coordinates are pairs <<x, y>>.  A grid of width w and height h is a    *)
(* function on Coords(w, h); its row-major vector is Enumerate(w, h).      *)
(*                                                                         *)
(* The inputs of reduce_potential_moves are the preference lists and the   *)
(* value of position_score on each (source, destination) pair.  The code   *)
(* reads a list only through PotentialMoves::current and a score only in   *)
(* resolve_conflicts, so the model draws the entry of a list when          *)
(* `current` first points at it, and the score of a pair when the pair is  *)
(* first compared, and keeps both from then on: the behaviours are those   *)
(* of drawing every list and every score before the call.                  *)
(*                                                                         *)
(* Saturations, thresholds and the diffusion rate are f32 in the code.     *)
(* The model keeps a saturation or a threshold as a number of SatDen-ths   *)
(* and the rate as a number of RateDen-ths, and rounds the result of the   *)
(* diffusion arithmetic to the nearest SatDen-th.                          *)
(***************************************************************************)
EXTENDS Integers, Sequences, FiniteSets, TLC

(* ------------------------------ bounds -------------------------------- *)

\* Grids have at most MaxCells cells (every width x height with that area).
MaxCells == 3

\* A preference list has at most MaxLen entries.
MaxLen == 2

\* position_score takes the values 0..MaxScore.
MaxScore == 1

\* The loop of reduce_potential_moves is cut off after MaxIters iterations
\* (never reached by the code as written: see the iteration bounds).
MaxIters == MaxCells * MaxLen + 2

\* A saturation is a number of SatDen-ths: 0..SatDen stands for [0, 1].
SatDen == 4

\* The diffusion rate is a number of RateDen-ths.
RateDen == 2

\* State::update runs at most MaxTicks times.
MaxTicks == 2

\* update_elements is applied at most MaxApplications times in a row.
MaxApplications == 3

\* A grid under test has a width and a height of 0..MaxSide.
MaxSide == 2

\* usize is taken to have UsizeBits bits (it has 64 on the targets built for;
\* what matters below is that -1 cast to usize is far outside every grid).
UsizeBits == 16

\* A window under test has a size of 1..MaxWindow, on a grid with sides of
\* 0..MaxWindow.
MaxWindow == 3

\* A PageFlip under test holds values 0..MaxPageValue and takes MaxPageOps
\* operations.
MaxPageValue == 1
MaxPageOps == 4

\* A force field under test has sides of 1..MaxField and forces with
\* components of -MaxForce..MaxForce.
MaxField == 3
MaxForce == 2

\* A state under a scorer has sides of 1..MaxScored.
MaxScored == 3

\* A Ranker under test has 1..MaxCompetitors competitors.
MaxCompetitors == 4

\* A ClampedF32 under test is a ClampedF32<-MaxClamp, MaxClamp, 1>; its f32 is
\* held in Fine-ths, one Fine-th standing for f32::EPSILON, and it takes
\* MaxClampOps operations.
MaxClamp == 2
Fine == 2
MaxClampOps == 3

\* A Config crossed has weight arrays of MaxWeights elements (8 in the code) and
\* polynomials of 1..MaxCoeffs coefficients; its numbers are 0 or 2 * MaxNumber.
MaxWeights == 2
MaxCoeffs == 2
MaxNumber == 1

\* A crowded potential_moves grid has (Capacity - 1)..MaxCrowd cells.
MaxCrowd == 27

\* The grids of main.rs are one column of 1..MaxMainHeight tiles or two columns
\* of 1..(MaxMainHeight - 2); MaxMainTicks updates are followed, each for at
\* most MaxMainIters passes of its conflict loop.
MaxMainHeight == 5
MaxMainTicks == 2
MaxMainIters == 4

(* --------------------------- program constants ------------------------ *)

WINDOW_SIZE == 5

WINDOW_SIZE_OV_2 == WINDOW_SIZE \div 2

BUCKET_SIZE == (WINDOW_SIZE * WINDOW_SIZE) \div 2 + 1

\* The length of MoveConflict::candidates.
Capacity == WINDOW_SIZE * WINDOW_SIZE

VARIABLES
    width,          \* potential_moves.width()
    height,         \* potential_moves.height()
    preferences,    \* PotentialMoves::preferences, the entries read so far
    closed,         \* closed[s]: the list of s ends with the entries read so far
    current,        \* PotentialMoves::current
    scores,         \* position_score on the pairs compared so far
    conflicts,      \* the Grid<MoveConflict>: candidates[0..len) of each cell
    built,          \* conflicts as the last iteration built it (before resolve_conflicts)
    prevCurrent,    \* current before the last iteration
    iters,          \* iterations of the loop so far
    conflictIters,  \* those that found a conflict
    orphans,        \* resolve_orphans: the orphans still to place
    slots,          \* resolve_orphans: the free destinations, row-major
    tree,           \* resolve_orphans: indices of slots still in the k-d tree
    orphanLog,      \* resolve_orphans: what each step did
    moves,          \* the destination -> source grid returned
    pc,             \* "loop", "orphans", "done", "panic"; "idle" outside a call
    panicMsg,       \* why the call panicked
    elements,       \* State::elements, a Grid<Tile>
    config,         \* State::config, the fields State::update reads
    phase,          \* the statement of State::update that runs next
    calls,          \* the calls the running (or last) State::update has made
    ticks,          \* the State::update calls begun
    before,         \* elements as they were before the last call
    lastMoves,      \* update_position: the moves of the last rebuild
    trail,          \* update_elements applied again and again: the grids seen
    grid,           \* a Grid or an ArrayGrid: kind, width, height, cells
    made,           \* how grid was constructed, and with how many cells
    gridOp,         \* the last operation on grid and what it returned
    enumerator,     \* a GridEnumerator: width, height, x, y, rx, ry
    yielded,        \* what its calls have yielded so far, and which call
    returned,       \* its last call and what that returned
    window,         \* a GridWindow: the grid's width and height, x, y, size
    windowOp,       \* the last call on window and what it returned
    pageflip,       \* a PageFlip: p1, p2, flipped
    pageTrail,      \* the operations on pageflip so far, each with the PageFlip it left
    forces,         \* a ForceField: width, height, and one cell with its force
    potential,      \* the PotentialMoves the closure built for that cell
    scored,         \* the State a scorer is built from: width, height, tiles
    scorer,         \* a PairwiseTileScorer: width, scores; or that new panicked
    scoreOp,        \* the last call on scorer and what it returned
    ranker,         \* a Ranker: i, j, remaining, competitors, needed
    rankLog,        \* the vector it was built from, the rank calls so far, what the last returned
    clamped,        \* a ClampedF32<MIN, MAX, 1>: the f32 it holds, in Fine-ths
    clampLog,       \* the operations on clamped so far
    parents,        \* the two Configs crossed: self and other
    crossed,        \* what Config::crossover returned
    crowd,          \* a potential_moves grid whose first sources all name one destination
    pushed,         \* what the push loop of reduce_potential_moves made of crowd
    mainElements,   \* State::elements of main.rs, the element of each tile
    intendedMovements,\* intended_movements of State::update in main.rs
    mainPc,         \* where State::update of main.rs stands
    mainLog         \* the grid before the update under way, the loop iterations and updates so far

resolveVars == <<width, height, preferences, closed, current, scores, conflicts,
                 built, prevCurrent, iters, conflictIters, orphans, slots, tree,
                 orphanLog, moves, pc, panicMsg>>

tickVars == <<elements, config, phase, calls, ticks, before, lastMoves>>

repeatVars == <<trail>>

gridVars == <<grid, made, gridOp>>

enumVars == <<enumerator, yielded, returned>>

windowVars == <<window, windowOp>>

pageVars == <<pageflip, pageTrail>>

forceVars == <<forces, potential>>

scoreVars == <<scored, scorer, scoreOp>>

rankVars == <<ranker, rankLog>>

clampVars == <<clamped, clampLog>>

crossVars == <<parents, crossed>>

crowdVars == <<crowd, pushed>>

mainVars == <<mainElements, intendedMovements, mainPc, mainLog>>

auxVars == <<repeatVars, gridVars, enumVars, windowVars, pageVars, forceVars, scoreVars, rankVars, clampVars, crossVars, crowdVars, mainVars>>

vars == <<resolveVars, tickVars, auxVars>>

\* No repeated update_elements under way.
RepeatIdle == trail = <<>>

\* No grid under test.
GridIdle == grid = <<>> /\ made = <<>> /\ gridOp = <<>>

\* No enumerator.
EnumIdle == enumerator = <<>> /\ yielded = <<>> /\ returned = <<>>

WindowIdle == window = <<>> /\ windowOp = <<>>

PageIdle == pageflip = <<>> /\ pageTrail = <<>>

ForceIdle == forces = <<>> /\ potential = <<>>

ScoreIdle == scored = <<>> /\ scorer = <<>> /\ scoreOp = <<>>

RankIdle == ranker = <<>> /\ rankLog = <<>>

ClampIdle == clamped = <<>> /\ clampLog = <<>>

CrossIdle == parents = <<>> /\ crossed = <<>>

CrowdIdle == crowd = <<>> /\ pushed = <<>>

MainIdle == mainElements = <<>> /\ intendedMovements = <<>> /\ mainPc = <<>> /\ mainLog = <<>>

AuxIdle == RepeatIdle /\ GridIdle /\ EnumIdle /\ WindowIdle /\ PageIdle /\ ForceIdle /\ ScoreIdle /\ RankIdle /\ ClampIdle /\ CrossIdle /\ CrowdIdle /\ MainIdle

\* What each of the smaller specifications leaves alone, and idle.
besidesRepeat == <<gridVars, enumVars, windowVars, pageVars, forceVars, scoreVars, rankVars, clampVars, crossVars, crowdVars, mainVars>>
BesidesRepeatIdle == GridIdle /\ EnumIdle /\ WindowIdle /\ PageIdle /\ ForceIdle /\ ScoreIdle /\ RankIdle /\ ClampIdle /\ CrossIdle /\ CrowdIdle /\ MainIdle
besidesGrid == <<repeatVars, enumVars, windowVars, pageVars, forceVars, scoreVars, rankVars, clampVars, crossVars, crowdVars, mainVars>>
BesidesGridIdle == RepeatIdle /\ EnumIdle /\ WindowIdle /\ PageIdle /\ ForceIdle /\ ScoreIdle /\ RankIdle /\ ClampIdle /\ CrossIdle /\ CrowdIdle /\ MainIdle
besidesEnum == <<repeatVars, gridVars, windowVars, pageVars, forceVars, scoreVars, rankVars, clampVars, crossVars, crowdVars, mainVars>>
BesidesEnumIdle == RepeatIdle /\ GridIdle /\ WindowIdle /\ PageIdle /\ ForceIdle /\ ScoreIdle /\ RankIdle /\ ClampIdle /\ CrossIdle /\ CrowdIdle /\ MainIdle
besidesWindow == <<repeatVars, gridVars, enumVars, pageVars, forceVars, scoreVars, rankVars, clampVars, crossVars, crowdVars, mainVars>>
BesidesWindowIdle == RepeatIdle /\ GridIdle /\ EnumIdle /\ PageIdle /\ ForceIdle /\ ScoreIdle /\ RankIdle /\ ClampIdle /\ CrossIdle /\ CrowdIdle /\ MainIdle
besidesPage == <<repeatVars, gridVars, enumVars, windowVars, forceVars, scoreVars, rankVars, clampVars, crossVars, crowdVars, mainVars>>
BesidesPageIdle == RepeatIdle /\ GridIdle /\ EnumIdle /\ WindowIdle /\ ForceIdle /\ ScoreIdle /\ RankIdle /\ ClampIdle /\ CrossIdle /\ CrowdIdle /\ MainIdle
besidesForce == <<repeatVars, gridVars, enumVars, windowVars, pageVars, scoreVars, rankVars, clampVars, crossVars, crowdVars, mainVars>>
BesidesForceIdle == RepeatIdle /\ GridIdle /\ EnumIdle /\ WindowIdle /\ PageIdle /\ ScoreIdle /\ RankIdle /\ ClampIdle /\ CrossIdle /\ CrowdIdle /\ MainIdle
besidesScore == <<repeatVars, gridVars, enumVars, windowVars, pageVars, forceVars, rankVars, clampVars, crossVars, crowdVars, mainVars>>
BesidesScoreIdle == RepeatIdle /\ GridIdle /\ EnumIdle /\ WindowIdle /\ PageIdle /\ ForceIdle /\ RankIdle /\ ClampIdle /\ CrossIdle /\ CrowdIdle /\ MainIdle
besidesRank == <<repeatVars, gridVars, enumVars, windowVars, pageVars, forceVars, scoreVars, clampVars, crossVars, crowdVars, mainVars>>
BesidesRankIdle == RepeatIdle /\ GridIdle /\ EnumIdle /\ WindowIdle /\ PageIdle /\ ForceIdle /\ ScoreIdle /\ ClampIdle /\ CrossIdle /\ CrowdIdle /\ MainIdle
besidesClamp == <<repeatVars, gridVars, enumVars, windowVars, pageVars, forceVars, scoreVars, rankVars, crossVars, crowdVars, mainVars>>
BesidesClampIdle == RepeatIdle /\ GridIdle /\ EnumIdle /\ WindowIdle /\ PageIdle /\ ForceIdle /\ ScoreIdle /\ RankIdle /\ CrossIdle /\ CrowdIdle /\ MainIdle
besidesCross == <<repeatVars, gridVars, enumVars, windowVars, pageVars, forceVars, scoreVars, rankVars, clampVars, crowdVars, mainVars>>
BesidesCrossIdle == RepeatIdle /\ GridIdle /\ EnumIdle /\ WindowIdle /\ PageIdle /\ ForceIdle /\ ScoreIdle /\ RankIdle /\ ClampIdle /\ CrowdIdle /\ MainIdle
besidesCrowd == <<repeatVars, gridVars, enumVars, windowVars, pageVars, forceVars, scoreVars, rankVars, clampVars, crossVars, mainVars>>
BesidesCrowdIdle == RepeatIdle /\ GridIdle /\ EnumIdle /\ WindowIdle /\ PageIdle /\ ForceIdle /\ ScoreIdle /\ RankIdle /\ ClampIdle /\ CrossIdle /\ MainIdle
besidesMain == <<repeatVars, gridVars, enumVars, windowVars, pageVars, forceVars, scoreVars, rankVars, clampVars, crossVars, crowdVars>>
BesidesMainIdle == RepeatIdle /\ GridIdle /\ EnumIdle /\ WindowIdle /\ PageIdle /\ ForceIdle /\ ScoreIdle /\ RankIdle /\ ClampIdle /\ CrossIdle /\ CrowdIdle

(* ------------------------------- grid --------------------------------- *)

None == <<>>

Coords(w, h) == {<<x, y>> : x \in 0..(w - 1), y \in 0..(h - 1)}

\* InGrid without the test of x against the width.
InGridNoUpperX(w, h, c) == ~(c[1] < 0 \/ c[2] < 0 \/ c[2] >= h)

\* Grid::get and ArrayGrid::get with the test of x and y against 0 left out.
InGridNoLower(w, h, c) == ~(c[1] >= w \/ c[2] >= h)

\* Grid::get / Grid::get_mut return a cell unless this check fails.
InGrid(w, h, c) == ~(c[1] < 0 \/ c[2] < 0 \/ c[1] >= w \/ c[2] >= h)

\* Grid::get_mut: the coordinate of the cell handed out, None when there is none.
\* The cell is cells[x + width * y], when the vector has that index.
CellAt(w, h, c) ==
    IF ~InGrid(w, h, c) THEN None
    ELSE IF c[1] + w * c[2] < w * h
         THEN <<(c[1] + w * c[2]) % w, (c[1] + w * c[2]) \div w>>
         ELSE None

\* Grid::enumerate and GridEnumerator: y ascending, x ascending within a row.
Enumerate(w, h) == [i \in 1..(w * h) |-> <<(i - 1) % w, (i - 1) \div w>>]

Range(f) == {f[i] : i \in DOMAIN f}

RECURSIVE SumOver(_, _)
SumOver(f, S) ==
    IF S = {} THEN 0
    ELSE LET x == CHOOSE y \in S : TRUE IN f[x] + SumOver(f, S \ {x})

MaxOver(S) == CHOOSE m \in S : \A n \in S : n <= m

Shapes == {wh \in (1..MaxCells) \X (1..MaxCells) : wh[1] * wh[2] <= MaxCells}

\* A coordinate outside a w x h grid: one past the end of row 0.
OutCoords(w, h) == {<<w, 0>>}

Entries(w, h) == Coords(w, h) \cup OutCoords(w, h)

(* --------------------------- PotentialMoves --------------------------- *)

\* PotentialMoves::current: preferences.get(current).
CurrentOf(prefs, cur, s) ==
    IF cur[s] < Len(prefs[s]) THEN prefs[s][cur[s] + 1] ELSE None

\* pop that leaves current where it is.
PopStays(cur, s) == cur[s]

\* pop that skips an entry.
PopSkips(cur, s) == cur[s] + 2

\* PotentialMoves::pop
Pop(cur, s) == cur[s] + 1

(* ---------------------------- MoveConflict ---------------------------- *)

\* is_empty that takes one candidate for none.
IsEmptyOrResolved(c) == Len(c) <= 1

IsEmpty(c) == Len(c) = 0

IsResolved(c) == Len(c) = 1

\* is_in_conflict that takes two candidates for none.
IsInConflictOverTwo(c) == Len(c) > 2

IsInConflict(c) == Len(c) > 1

\* swap_remove(i): the last candidate takes the place of candidate i.
SwapRemove(c, i) == [j \in 1..(Len(c) - 1) |-> IF j = i THEN c[Len(c)] ELSE c[j]]

(* ----------------------- reduce_potential_moves ----------------------- *)

\* The sources pushed into destination d by the loop over potential_moves,
\* in the order of the pushes.
Pushed(w, h, prefs, cur, d) ==
    SelectSeq(Enumerate(w, h),
        LAMBDA s : /\ CurrentOf(prefs, cur, s) # None
                   /\ CellAt(w, h, CurrentOf(prefs, cur, s)) = d)

\* conflicts.get_mut(new_x, new_y).unwrap() fails for some source.
PushUnwrapsNone(w, h, prefs, cur) ==
    \E s \in Coords(w, h) :
        /\ CurrentOf(prefs, cur, s) # None
        /\ CellAt(w, h, CurrentOf(prefs, cur, s)) = None

\* push_move indexes candidates past its end for some destination.
PushOverflows(w, h, prefs, cur) ==
    \E d \in Coords(w, h) : Len(Pushed(w, h, prefs, cur, d)) > Capacity

\* min_by_key in the place of max_by_key.
WinnerIndexMin(c, d, sc) ==
    CHOOSE i \in 1..Len(c) :
        /\ \A j \in 1..Len(c) : sc[<<c[j], d>>] >= sc[<<c[i], d>>]
        /\ \A j \in 1..(i - 1) : sc[<<c[j], d>>] > sc[<<c[i], d>>]

\* A max_by_key that keeps the first of several maxima.
WinnerIndexFirstMax(c, d, sc) ==
    CHOOSE i \in 1..Len(c) :
        /\ \A j \in 1..Len(c) : sc[<<c[j], d>>] <= sc[<<c[i], d>>]
        /\ \A j \in 1..(i - 1) : sc[<<c[j], d>>] < sc[<<c[i], d>>]

\* max_by_key over position_score: of several maxima the last one.
WinnerIndex(c, d, sc) ==
    CHOOSE i \in 1..Len(c) :
        /\ \A j \in 1..Len(c) : sc[<<c[j], d>>] <= sc[<<c[i], d>>]
        /\ \A j \in (i + 1)..Len(c) : sc[<<c[j], d>>] < sc[<<c[i], d>>]

\* The destinations resolve_conflicts finds in conflict.
Conflicted(w, h, b) == {d \in Coords(w, h) : IsInConflict(b[d])}

\* resolve_conflicts that removes no winner: every candidate is popped.
AfterWinnerNobody(c, d, sc) == c

\* resolve_conflicts at one conflicted destination: the winner is removed and
\* the candidates left are the ones popped.
AfterWinner(c, d, sc) == SwapRemove(c, WinnerIndex(c, d, sc))

\* resolve_conflicts, the conflict grid it leaves.
ResolvedGrid(w, h, b, sc) ==
    [d \in Coords(w, h) |->
        IF IsInConflict(b[d]) THEN AfterWinner(b[d], d, sc) ELSE b[d]]

\* resolve_conflicts that pops nobody.
LosersNone(w, h, b, sc) == {}

\* resolve_conflicts, the sources it pops.
Losers(w, h, b, sc) ==
    UNION {Range(AfterWinner(b[d], d, sc)) : d \in Conflicted(w, h, b)}

\* resolve_conflicts that reports a conflict on every call.
FoundConflictsAlways(w, h, b) == TRUE

\* resolve_conflicts, its return value.
FoundConflicts(w, h, b) == Conflicted(w, h, b) # {}

\* The pairs resolve_conflicts scores.
Compared(w, h, b) ==
    UNION {{<<s, d>> : s \in Range(b[d])} : d \in Conflicted(w, h, b)}

\* squared_euclidean
SquaredEuclidean(a, b) ==
    (a[1] - b[1]) * (a[1] - b[1]) + (a[2] - b[2]) * (a[2] - b[2])

\* The current indices after resolve_conflicts: every loser has popped.
Advanced(w, h, b, sc, cur) ==
    [s \in Coords(w, h) |-> IF s \in Losers(w, h, b, sc) THEN Pop(cur, s) ELSE cur[s]]

\* The sources whose pop has moved current onto an entry not read before.
Unread(w, h, prefs, cl, cur, nxt) ==
    {s \in Coords(w, h) : nxt[s] # cur[s] /\ nxt[s] >= Len(prefs[s]) /\ ~cl[s]}

InitResolve ==
    \E wh \in Shapes :
        /\ width = wh[1]
        /\ height = wh[2]
        /\ \E first \in [Coords(wh[1], wh[2]) -> Entries(wh[1], wh[2]) \cup {None}] :
            /\ preferences =
                 [s \in Coords(wh[1], wh[2]) |->
                     IF first[s] = None THEN <<>> ELSE <<first[s]>>]
            /\ closed =
                 [s \in Coords(wh[1], wh[2]) |-> first[s] = None \/ MaxLen = 1]
        /\ current = [s \in Coords(wh[1], wh[2]) |-> 0]
        /\ scores = <<>>
        /\ conflicts = [d \in Coords(wh[1], wh[2]) |-> <<>>]
        /\ built = [d \in Coords(wh[1], wh[2]) |-> <<>>]
        /\ prevCurrent = [s \in Coords(wh[1], wh[2]) |-> 0]
        /\ iters = 0
        /\ conflictIters = 0
        /\ orphans = <<>>
        /\ slots = <<>>
        /\ tree = {}
        /\ orphanLog = <<>>
        /\ moves = <<>>
        /\ pc = "loop"
        /\ panicMsg = ""
        /\ elements = <<>>
        /\ config = <<>>
        /\ phase = "idle"
        /\ calls = <<>>
        /\ ticks = 0
        /\ before = <<>>
        /\ lastMoves = <<>>
        /\ AuxIdle

Panic(msg) ==
    /\ pc' = "panic"
    /\ panicMsg' = msg

\* One iteration of the loop of reduce_potential_moves: reset, the pushes,
\* resolve_conflicts; on the iteration that finds no conflict, the break and the
\* start of resolve_orphans (its two collects and the k-d tree).
LoopIteration ==
    /\ pc = "loop"
    /\ iters < MaxIters
    /\ iters' = iters + 1
    /\ UNCHANGED <<width, height, orphanLog, moves>>
    /\ UNCHANGED <<tickVars, auxVars>>
    /\ IF PushUnwrapsNone(width, height, preferences, current)
       THEN /\ Panic("unwrap on None")
            /\ UNCHANGED <<preferences, closed, current, scores, conflicts, built,
                           prevCurrent, conflictIters, orphans, slots, tree>>
       ELSE IF PushOverflows(width, height, preferences, current)
       THEN /\ Panic("index out of bounds")
            /\ UNCHANGED <<preferences, closed, current, scores, conflicts, built,
                           prevCurrent, conflictIters, orphans, slots, tree>>
       ELSE
         /\ built' = [d \in Coords(width, height) |->
                         Pushed(width, height, preferences, current, d)]
         /\ prevCurrent' = current
         /\ \E drawn \in [Compared(width, height, built') \ DOMAIN scores
                               -> 0..MaxScore] :
              scores' = drawn @@ scores
         /\ conflicts' = ResolvedGrid(width, height, built', scores')
         /\ current' = Advanced(width, height, built', scores', current)
         /\ \E next \in [Unread(width, height, preferences, closed, current, current')
                             -> Entries(width, height) \cup {None}] :
              /\ preferences' =
                   [s \in Coords(width, height) |->
                       IF s \in DOMAIN next /\ next[s] # None
                       THEN Append(preferences[s], next[s])
                       ELSE preferences[s]]
              /\ closed' =
                   [s \in Coords(width, height) |->
                       IF s \in DOMAIN next
                       THEN next[s] = None \/ Len(preferences[s]) + 1 = MaxLen
                       ELSE closed[s]]
         /\ IF FoundConflicts(width, height, built')
            THEN /\ conflictIters' = conflictIters + 1
                 /\ UNCHANGED <<orphans, slots, tree, pc, panicMsg>>
            ELSE /\ orphans' =
                      SelectSeq(Enumerate(width, height),
                          LAMBDA s : CurrentOf(preferences, current, s) = None)
                 /\ slots' =
                      SelectSeq(Enumerate(width, height),
                          LAMBDA d : IsEmpty(built'[d]))
                 /\ tree' = 1..Len(slots')
                 /\ pc' = "orphans"
                 /\ UNCHANGED <<conflictIters, panicMsg>>

\* nearest_one that returns an item at the greatest distance.
Farthest(sl, tr, o) ==
    {i \in tr : \A j \in tr :
        SquaredEuclidean(sl[i], o) >= SquaredEuclidean(sl[j], o)}

\* The indices nearest_one may return for orphan o: an item of the tree at the
\* least squared distance.
Nearest(sl, tr, o) ==
    {i \in tr : \A j \in tr :
        SquaredEuclidean(sl[i], o) <= SquaredEuclidean(sl[j], o)}

\* MoveConflict::resolve: reset, then push_move.
Resolve(conf, d, m) == [conf EXCEPT ![d] = <<m>>]

\* One pass of the loop over the orphans in resolve_orphans.
OrphanStep ==
    /\ pc = "orphans"
    /\ orphans # <<>>
    /\ UNCHANGED <<tickVars, auxVars>>
    /\ UNCHANGED <<width, height, preferences, closed, current, scores, built,
                   prevCurrent, iters, conflictIters, slots, moves>>
    /\ IF tree = {}
       THEN /\ Panic("index out of bounds")
            /\ UNCHANGED <<conflicts, orphans, tree, orphanLog>>
       ELSE \E i \in Nearest(slots, tree, Head(orphans)) :
            /\ conflicts' = Resolve(conflicts, slots[i], Head(orphans))
            /\ tree' = tree \ {i}
            /\ orphans' = Tail(orphans)
            /\ orphanLog' =
                 Append(orphanLog,
                        [orphan |-> Head(orphans), slot |-> slots[i],
                         free |-> {slots[j] : j \in tree}])
            /\ UNCHANGED <<pc, panicMsg>>

\* The Grid::new that ends reduce_potential_moves.
BuildResult ==
    /\ pc = "orphans"
    /\ orphans = <<>>
    /\ UNCHANGED <<tickVars, auxVars>>
    /\ UNCHANGED <<width, height, preferences, closed, current, scores, conflicts,
                   built, prevCurrent, iters, conflictIters, orphans, slots, tree,
                   orphanLog>>
    /\ IF \A d \in Coords(width, height) : IsResolved(conflicts[d])
       THEN /\ moves' = [d \in Coords(width, height) |-> conflicts[d][1]]
            /\ pc' = "done"
            /\ UNCHANGED panicMsg
       ELSE /\ Panic("Unresolved conflict")
            /\ UNCHANGED moves

NextResolve == LoopIteration \/ OrphanStep \/ BuildResult

SpecResolve == InitResolve /\ [][NextResolve]_vars

\* The program runs on: an enabled step of reduce_potential_moves is taken.
FairSpecResolve == SpecResolve /\ WF_vars(NextResolve)

(* ----------------------- properties of the resolver -------------------- *)

Sources == Coords(width, height)

\* Every entry read so far from the preference lists lies in the grid.
AllInGrid ==
    \A s \in Sources : \A i \in 1..Len(preferences[s]) :
        preferences[s][i] \in Sources

\* No destination was ever the current choice of more sources than a
\* MoveConflict holds.
WithinCapacity == \A d \in Sources : Len(built[d]) <= Capacity

\* m maps the destinations one-to-one onto the sources.
IsPermutation(m) ==
    /\ DOMAIN m = Sources
    /\ \A d \in Sources : m[d] \in Sources
    /\ \A s \in Sources : Cardinality({d \in Sources : m[d] = s}) = 1

\* The sources whose list is exhausted, in row-major order.
ExhaustedSources ==
    SelectSeq(Enumerate(width, height),
        LAMBDA s : CurrentOf(preferences, current, s) = None)

\* An upper bound of the length of the list of s: its length when the list is
\* known to end, the longest a list can be otherwise.
LenUpper(s) == IF closed[s] THEN Len(preferences[s]) ELSE MaxLen

\* C1: with every entry in the grid and no destination over capacity,
\* reduce_potential_moves does not panic (in particular not with `Unresolved
\* conflict`), and the grid it returns is a permutation: every destination
\* holds one source and every source is at exactly one destination.
C1_ResolvePermutation ==
    /\ pc = "done" => IsPermutation(moves)
    /\ pc = "panic" => panicMsg # "Unresolved conflict"
    /\ (AllInGrid /\ WithinCapacity) => pc # "panic"

\* C1 witness: on a grid of MaxCells cells every source ranks the same cell
\* first, and the call has returned.
C1_Witness ==
    /\ pc = "done"
    /\ width * height = MaxCells
    /\ \E d \in Sources : \A s \in Sources :
          preferences[s] # <<>> /\ preferences[s][1] = d

\* C2: the loop of reduce_potential_moves is left: some iteration finds no
\* destination with more than one proposer (or the call panics).
C2_LoopTerminates ==
    <>(/\ pc # "loop"
       /\ pc # "panic" => \A d \in Sources : ~IsInConflict(built[d]))

\* C2 witness: the loop has been left after two iterations that found conflicts.
C2_Witness == pc = "orphans" /\ conflictIters >= 2

\* C3 as claimed: the iterations that find a conflict number at most the
\* greatest list length.
C3_Original == conflictIters <= MaxOver({LenUpper(s) : s \in Sources})

\* C3 as amended: the iterations that find a conflict number at most the sum of
\* the list lengths (of the entries read, which the lists have at least).
C3_ConflictItersBound ==
    conflictIters <= SumOver([s \in Sources |-> Len(preferences[s])], Sources)

\* C3 witness: more conflicting iterations than any list is long, and the call
\* has returned.
C3_Witness == pc = "done" /\ conflictIters > MaxLen

\* C4: in the last call of resolve_conflicts, at each destination with two or
\* more proposers one proposer of maximal score kept its index and every other
\* proposer advanced by one; the sources proposing to an unconflicted
\* destination or to none were left alone.
C4_OneWinnerPerConflict ==
    /\ \A d \in Sources :
          IF Len(built[d]) >= 2
          THEN \E win \in Range(built[d]) :
                  /\ current[win] = prevCurrent[win]
                  /\ \A s \in Range(built[d]) :
                        scores[<<s, d>>] <= scores[<<win, d>>]
                  /\ \A s \in Range(built[d]) \ {win} :
                        current[s] = prevCurrent[s] + 1
          ELSE \A s \in Range(built[d]) : current[s] = prevCurrent[s]
    /\ \A s \in Sources :
          (\A d \in Sources : s \notin Range(built[d])) =>
              current[s] = prevCurrent[s]

\* C4 witness: the last call found a destination with several proposers, two of
\* them tied at the maximal score, and another destination with one proposer.
C4_Witness ==
    /\ pc = "loop"
    /\ \E d \in Sources, e \in Sources :
          /\ Len(built[d]) >= 2
          /\ Len(built[e]) = 1
          /\ \E a \in Range(built[d]), b \in Range(built[d]) :
                /\ a # b
                /\ scores[<<a, d>>] = scores[<<b, d>>]
                /\ \A s \in Range(built[d]) : scores[<<s, d>>] <= scores[<<a, d>>]

\* C5: resolve_orphans takes the orphans in row-major order and gives each one
\* a destination that had no proposer at the fixed point, that is not yet
\* given away, and that is nearest (squared Euclidean distance) among those; no
\* destination is given to two orphans.
C5_OrphansNearestFree ==
    /\ Len(orphanLog) <= Len(ExhaustedSources)
    /\ \A k \in 1..Len(orphanLog) :
          /\ orphanLog[k].orphan = ExhaustedSources[k]
          /\ orphanLog[k].free =
                {d \in Sources : IsEmpty(built[d])}
                    \ {orphanLog[j].slot : j \in 1..(k - 1)}
          /\ orphanLog[k].slot \in orphanLog[k].free
          /\ \A f \in orphanLog[k].free :
                SquaredEuclidean(orphanLog[k].slot, orphanLog[k].orphan)
                    <= SquaredEuclidean(f, orphanLog[k].orphan)
          /\ \A j \in 1..(k - 1) : orphanLog[j].slot # orphanLog[k].slot
          /\ pc # "panic" => conflicts[orphanLog[k].slot] = <<orphanLog[k].orphan>>

\* C5 witness: two orphans have been placed, the first with a free destination
\* farther away than the one it got.
C5_Witness ==
    /\ Len(orphanLog) >= 2
    /\ \E f \in orphanLog[1].free :
          SquaredEuclidean(f, orphanLog[1].orphan)
              > SquaredEuclidean(orphanLog[1].slot, orphanLog[1].orphan)

\* C6: once an entry outside the grid has become a current choice, the call
\* does not get past its loop except by panicking; what it returns gives every
\* destination exactly one source, a cell of the grid.
C6_OutOfGridPanics ==
    /\ ~AllInGrid => pc \in {"loop", "panic"}
    /\ (~AllInGrid /\ pc = "loop") =>
          \E s \in Sources :
              /\ CurrentOf(preferences, current, s) # None
              /\ CurrentOf(preferences, current, s) \notin Sources
    /\ pc = "done" =>
          \A d \in Sources :
              /\ Len(conflicts[d]) = 1
              /\ moves[d] = conflicts[d][1]
              /\ moves[d] \in Sources

\* C6 witness: the call panicked on an entry outside the grid that became the
\* current choice after a lost conflict.
C6_Witness == pc = "panic" /\ ~AllInGrid /\ iters >= 2

\* The list of s is exhausted when its index is cur[s].
Exhausted(cur, s) == cur[s] >= Len(preferences[s])

\* C25: the index of a source never decreases and never exceeds the length of
\* its list; a source whose list is exhausted proposes to no destination, keeps
\* its index and gets its destination from resolve_orphans alone; a source
\* whose list is not exhausted when the loop ends gets the destination at its
\* current index, an entry of its own list.
C25_IndicesAndFallback ==
    /\ \A s \in Sources :
          /\ prevCurrent[s] <= current[s]
          /\ current[s] <= Len(preferences[s])
          /\ Exhausted(prevCurrent, s) =>
                /\ current[s] = prevCurrent[s]
                /\ \A d \in Sources : s \notin Range(built[d])
    /\ pc = "done" =>
          \A s \in Sources :
              IF Exhausted(current, s)
              THEN \E k \in 1..Len(orphanLog) :
                      /\ orphanLog[k].orphan = s
                      /\ IsEmpty(built[orphanLog[k].slot])
                      /\ \A d \in Sources : moves[d] = s <=> d = orphanLog[k].slot
              ELSE /\ \A k \in 1..Len(orphanLog) : orphanLog[k].orphan # s
                   /\ preferences[s][current[s] + 1] \in Sources
                   /\ \A d \in Sources :
                         moves[d] = s <=> d = preferences[s][current[s] + 1]

\* C25 witness: the call has returned; one source lost every entry of its list
\* and was placed by resolve_orphans, another holds the second entry of its
\* list.
C25_Witness ==
    /\ pc = "done"
    /\ \E s \in Sources :
          /\ preferences[s] # <<>>
          /\ Exhausted(current, s)
          /\ \E k \in 1..Len(orphanLog) : orphanLog[k].orphan = s
    /\ \E s \in Sources :
          /\ current[s] = 1
          /\ ~Exhausted(current, s)
          /\ moves[preferences[s][2]] = s

\* C26: the loop of reduce_potential_moves runs at most once more than the
\* lists have entries, the iteration that finds no conflict included.
C26_LoopIterationsBound ==
    iters <= 1 + SumOver([s \in Sources |-> Len(preferences[s])], Sources)

\* C26 witness: the call has returned after three iterations that found a
\* conflict and the one that found none.
C26_Witness == pc = "done" /\ conflictIters = 3 /\ iters = 4

\* C32: when the loop has ended, the sources with an exhausted list are as
\* many as the destinations nobody proposed to; resolve_orphans therefore asks
\* the k-d tree for a nearest slot only while it holds one (no panic once
\* resolve_orphans has begun), and the tree is empty after the last orphan.
C32_OrphansMatchFreeSlots ==
    /\ pc \in {"orphans", "done"} =>
          /\ Len(ExhaustedSources) = Cardinality({d \in Sources : Len(built[d]) = 0})
          /\ Len(slots) = Len(ExhaustedSources)
          /\ Len(orphans) + Len(orphanLog) = Len(ExhaustedSources)
          /\ Cardinality(tree) = Len(orphans)
    /\ pc = "done" => tree = {} /\ orphans = <<>>
    /\ pc = "panic" => orphans = <<>> /\ orphanLog = <<>>

\* C32 witness: the call has returned after resolve_orphans placed two orphans,
\* one of them a source that lost every entry of its list.
C32_Witness ==
    /\ pc = "done"
    /\ Len(orphanLog) = 2
    /\ tree = {}
    /\ \E k \in 1..2 : preferences[orphanLog[k].orphan] # <<>>

\* The destinations s was rejected from: the entries before its current index.
RejectedFrom(s) == {preferences[s][i] : i \in 1..current[s]}

\* C33: a destination that had a proposer in the last iteration has one in the
\* next (so in every later one); and when the loop has ended, the source
\* holding a destination d scores at least as high for d as every source that
\* was rejected from d.
C33_StableResult ==
    /\ \A d \in Sources :
          Len(built[d]) > 0 =>
              \E s \in Sources : CurrentOf(preferences, current, s) = d
    /\ pc \in {"orphans", "done"} =>
          \A s \in Sources : \A d \in RejectedFrom(s) :
              /\ Len(built[d]) = 1
              /\ scores[<<built[d][1], d>>] >= scores[<<s, d>>]

\* C33 witness: the call has returned; one source was rejected from a
\* destination whose holder scores higher, another from a destination whose
\* holder scores the same.
C33_Witness ==
    /\ pc = "done"
    /\ \E s \in Sources : \E d \in RejectedFrom(s) :
          built[d][1] # s /\ scores[<<built[d][1], d>>] > scores[<<s, d>>]
    /\ \E s \in Sources : \E d \in RejectedFrom(s) :
          built[d][1] # s /\ scores[<<built[d][1], d>>] = scores[<<s, d>>]

\* The place of source s in row-major order.
RowMajorRank(s) == s[2] * width + s[1]

\* The proposers of d in the last iteration that tie on the greatest score.
TiedAtMax(d) ==
    {s \in Range(built[d]) :
        \A u \in Range(built[d]) : scores[<<u, d>>] <= scores[<<s, d>>]}

\* Of the proposers of d that tie on the greatest score, the last in row-major
\* order.
LastTied(d) ==
    CHOOSE s \in TiedAtMax(d) :
        \A u \in TiedAtMax(d) : RowMajorRank(u) <= RowMajorRank(s)

\* C34: the proposers of a destination are recorded in row-major order of the
\* sources, the winner of a conflict is the last in that order of the
\* proposers that tie on the greatest score, and every index after an
\* iteration is fixed by the lists, the scores and the indices before it: the
\* winner and the unconflicted keep theirs, every other proposer advances by
\* one.  So the loop maps equal lists and scores to equal results.
C34_LastTiedWins ==
    /\ \A d \in Sources : \A i \in 1..(Len(built[d]) - 1) :
          RowMajorRank(built[d][i]) < RowMajorRank(built[d][i + 1])
    /\ (iters >= 1 /\ pc # "panic") =>
          \A d \in Sources :
              built[d] = SelectSeq(Enumerate(width, height),
                            LAMBDA s : /\ prevCurrent[s] < Len(preferences[s])
                                       /\ preferences[s][prevCurrent[s] + 1] = d)
    /\ \A s \in Sources :
          current[s] =
              IF \E d \in Sources :
                    /\ s \in Range(built[d])
                    /\ Len(built[d]) >= 2
                    /\ s # LastTied(d)
              THEN prevCurrent[s] + 1
              ELSE prevCurrent[s]

\* C34 witness: in the last iteration two proposers of a destination tied on
\* the greatest score; the later one in row-major order kept its index and
\* the earlier one advanced.
C34_Witness ==
    /\ pc = "loop"
    /\ \E d \in Sources : \E a \in TiedAtMax(d), b \in TiedAtMax(d) :
          /\ RowMajorRank(a) < RowMajorRank(b)
          /\ b = LastTied(d)
          /\ current[b] = prevCurrent[b]
          /\ current[a] = prevCurrent[a] + 1

(* ------------------------------ State --------------------------------- *)

\* Element
Element == {"Air", "Soil", "Water"}

\* The tiles State::gen draws: Air with a saturation in 0.5..=0.75, Soil in
\* 0.5..=0.9, Water at 1.0.
GenTiles ==
    {[element |-> "Air", saturation |-> n] :
        n \in {m \in 0..SatDen : 2 * m >= SatDen /\ 4 * m <= 3 * SatDen}}
    \cup {[element |-> "Soil", saturation |-> n] :
        n \in {m \in 0..SatDen : 2 * m >= SatDen /\ 10 * m <= 9 * SatDen}}
    \cup {[element |-> "Water", saturation |-> SatDen]}

\* The thresholds a Config is given here: 1.0 and the saturation next below.
Thresholds == {SatDen - 1, SatDen}

\* The diffusion rates a Config is given here: 1/RateDen, 1 and 2.  The field
\* is a plain f32 that run_fullscreen reads from config.json.
Rates == {1, RateDen, 2 * RateDen}

\* The fields of Config that State::update reads.
Configs ==
    [air_to_water_saturation_threshold : Thresholds,
     water_to_air_saturation_threshold : Thresholds,
     saturation_diffusion_rate : Rates]

\* Moves that need not be a permutation.
AnyMoves(S) == [S -> S]

\* The bijections of S: what reduce_potential_moves returns (SpecResolve).
Bijections(S) == {f \in [S -> S] : \A u \in S : \E s \in S : f[s] = u}

\* The statements of State::update, in the order of its body.
UpdateOrder == <<"update_position", "update_saturations", "update_elements">>

\* The body of State::update with its last two statements exchanged.
FollowingSwapped(call) ==
    CASE call = "update_position" -> "update_elements"
      [] call = "update_elements" -> "update_saturations"
      [] OTHER -> "update_position"

\* State::update: the statement that follows a call (after the last one the
\* next State::update begins).
Following(call) ==
    CASE call = "update_position" -> "update_saturations"
      [] call = "update_saturations" -> "update_elements"
      [] OTHER -> "update_position"

\* A rebuild that overwrites the grid cell by cell, in row-major order, reading
\* from the grid it is writing.
RECURSIVE InPlaceFrom(_, _, _, _)
InPlaceFrom(order, k, g, mv) ==
    IF k > Len(order) THEN g
    ELSE InPlaceFrom(order, k + 1, [g EXCEPT ![order[k]] = g[mv[order[k]]]], mv)

RebuiltInPlace(w, h, old, mv) == InPlaceFrom(Enumerate(w, h), 1, old, mv)

\* update_position, the Grid::new that ends it: the cell at (x, y) is a clone
\* of the old cell at moves[x, y].
Rebuilt(w, h, old, mv) == [c \in Coords(w, h) |-> old[mv[c]]]

\* GridWindow::iter and GridWindow::enumerate: the offsets of a window.
WindowOffsets(size) ==
    {<<x - size \div 2, y - size \div 2>> : x \in 0..(size - 1), y \in 0..(size - 1)}

\* GridWindow::get
WindowGet(w, h, c, o) == CellAt(w, h, <<c[1] + o[1], c[2] + o[2]>>)

\* GridWindow::iter: the offsets whose cell the filter_map keeps.
WindowIter(w, h, c, size) ==
    {o \in WindowOffsets(size) : WindowGet(w, h, c, o) # None}

\* a / b rounded to the nearest integer (b > 0).
DivRound(a, b) == (2 * a + b) \div (2 * b)

\* update_saturations, the closure mapped over windows(3): rate * (avg - own),
\* in SatDen-ths.
SaturationDelta(w, h, el, rate, c) ==
    LET offs == WindowIter(w, h, c, 3)
        total == SumOver([o \in offs |-> el[WindowGet(w, h, c, o)].saturation], offs)
        count == Cardinality(offs)
        own == el[WindowGet(w, h, c, <<0, 0>>)].saturation
    IN DivRound(rate * (total - count * own), RateDen * count)

\* No clamp at all.
Unclamped(v, lo, hi) == v

\* f32::clamp
Clamp(v, lo, hi) == IF v < lo THEN lo ELSE IF v > hi THEN hi ELSE v

\* update_saturations, the grid `saturations` collected from windows(3).
SaturationDeltas(w, h, el, rate) ==
    [c \in Coords(w, h) |-> SaturationDelta(w, h, el, rate, c)]

\* update_saturations, its loop over the cells from the k-th of order on: each
\* saturation becomes itself plus the delta collected for the cell, clamped.
RECURSIVE WriteSaturations(_, _, _, _)
WriteSaturations(order, k, g, sats) ==
    IF k > Len(order) THEN g
    ELSE WriteSaturations(order, k + 1,
            [g EXCEPT ![order[k]].saturation =
                Clamp(g[order[k]].saturation + sats[order[k]], 0, SatDen)],
            sats)

\* An update_saturations that computes the delta of a cell when it writes the
\* cell, from the grid it is writing.
RECURSIVE WriteSaturationsInPlace(_, _, _, _, _, _)
WriteSaturationsInPlace(order, k, g, w, h, rate) ==
    IF k > Len(order) THEN g
    ELSE WriteSaturationsInPlace(order, k + 1,
            [g EXCEPT ![order[k]].saturation =
                Clamp(g[order[k]].saturation
                          + SaturationDelta(w, h, g, rate, order[k]), 0, SatDen)],
            w, h, rate)

SaturatedInPlace(w, h, el, rate) ==
    WriteSaturationsInPlace(Enumerate(w, h), 1, el, w, h, rate)

\* update_saturations, the grid it leaves.
Saturated(w, h, el, rate) ==
    WriteSaturations(Enumerate(w, h), 1, el, SaturationDeltas(w, h, el, rate))

\* update_elements with the two comparisons made strict and non-strict the
\* other way round.
UpdatedElementOtherWay(tile, cfg) ==
    IF tile.element = "Air" /\ tile.saturation > cfg.air_to_water_saturation_threshold
    THEN "Water"
    ELSE IF tile.element = "Water"
            /\ tile.saturation <= cfg.water_to_air_saturation_threshold
    THEN "Air"
    ELSE tile.element

\* update_elements, the match on t.element.
UpdatedElement(tile, cfg) ==
    IF tile.element = "Air" /\ tile.saturation >= cfg.air_to_water_saturation_threshold
    THEN "Water"
    ELSE IF tile.element = "Water"
            /\ tile.saturation < cfg.water_to_air_saturation_threshold
    THEN "Air"
    ELSE tile.element

\* State::gen, and no call of reduce_potential_moves under way.
InitTick ==
    \E wh \in Shapes :
        /\ width = wh[1]
        /\ height = wh[2]
        /\ elements \in [Coords(wh[1], wh[2]) -> GenTiles]
        /\ config \in Configs
        /\ phase = "update_position"
        /\ calls = <<>>
        /\ ticks = 0
        /\ before = elements
        /\ lastMoves = <<>>
        /\ preferences = <<>>
        /\ closed = <<>>
        /\ current = <<>>
        /\ scores = <<>>
        /\ conflicts = <<>>
        /\ built = <<>>
        /\ prevCurrent = <<>>
        /\ iters = 0
        /\ conflictIters = 0
        /\ orphans = <<>>
        /\ slots = <<>>
        /\ tree = {}
        /\ orphanLog = <<>>
        /\ moves = <<>>
        /\ pc = "idle"
        /\ panicMsg = ""
        /\ AuxIdle

\* State::update_position, the first statement of State::update.  The moves
\* are a grid reduce_potential_moves can return.
UpdatePosition ==
    /\ phase = "update_position"
    /\ ticks < MaxTicks
    /\ ticks' = ticks + 1
    /\ calls' = <<"update_position">>
    /\ before' = elements
    /\ \E mv \in Bijections(Coords(width, height)) :
         /\ lastMoves' = mv
         /\ elements' = Rebuilt(width, height, elements, mv)
    /\ phase' = Following("update_position")
    /\ UNCHANGED <<config, resolveVars, auxVars>>

\* State::update_saturations
UpdateSaturations ==
    /\ phase = "update_saturations"
    /\ calls' = Append(calls, "update_saturations")
    /\ before' = elements
    /\ elements' = Saturated(width, height, elements, config.saturation_diffusion_rate)
    /\ phase' = Following("update_saturations")
    /\ UNCHANGED <<config, ticks, lastMoves, resolveVars, auxVars>>

\* State::update_elements
UpdateElements ==
    /\ phase = "update_elements"
    /\ calls' = Append(calls, "update_elements")
    /\ before' = elements
    /\ elements' =
         [c \in Coords(width, height) |->
             [element |-> UpdatedElement(elements[c], config),
              saturation |-> elements[c].saturation]]
    /\ phase' = Following("update_elements")
    /\ UNCHANGED <<config, ticks, lastMoves, resolveVars, auxVars>>

NextTick == UpdatePosition \/ UpdateSaturations \/ UpdateElements

SpecTick == InitTick /\ [][NextTick]_vars

(* ----------------------- properties of State::update ------------------- *)

\* The call State::update made last.
LastCall == IF calls = <<>> THEN "none" ELSE calls[Len(calls)]

\* How many cells of grid g hold tile u.
CountOf(g, u) == Cardinality({c \in DOMAIN g : g[c] = u})

\* C7: every State::update calls update_position, update_saturations and
\* update_elements once each, in that order: the calls made so far are a
\* prefix of that sequence, the statement to run next is the one after them,
\* and between two updates all three have been made.
C7_PhasesInOrder ==
    /\ Len(calls) <= Len(UpdateOrder)
    /\ calls = SubSeq(UpdateOrder, 1, Len(calls))
    /\ phase = "update_position" => (calls = <<>> \/ calls = UpdateOrder)
    /\ phase # "update_position" =>
          /\ Len(calls) < Len(UpdateOrder)
          /\ phase = UpdateOrder[Len(calls) + 1]
    /\ (ticks > 0) = (calls # <<>>)

\* C7 witness: the second State::update has made its three calls.
C7_Witness == ticks = MaxTicks /\ phase = "update_position" /\ calls = UpdateOrder

\* C8: the grid keeps its width and height and holds one tile per position;
\* right after update_position the tile at each position is the old tile at
\* moves[position], and every tile occurs as many times as before.
C8_PositionMovesTiles ==
    /\ DOMAIN elements = Coords(width, height)
    /\ LastCall = "update_position" =>
          /\ \A c \in Coords(width, height) : elements[c] = before[lastMoves[c]]
          /\ \A u \in Range(before) \cup Range(elements) :
                CountOf(elements, u) = CountOf(before, u)

\* C8 witness: the second update_position has moved every tile of a grid of
\* MaxCells cells that holds two tiles alike and one different.
C8_Witness ==
    /\ LastCall = "update_position"
    /\ ticks = MaxTicks
    /\ width * height = MaxCells
    /\ \A c \in Coords(width, height) : lastMoves[c] # c
    /\ Cardinality(Range(before)) = 2

\* C9: every saturation lies in [0, 1], so in particular after
\* update_saturations, whatever the diffusion rate.
C9_SaturationInRange ==
    \A c \in DOMAIN elements :
        elements[c].saturation >= 0 /\ elements[c].saturation <= SatDen

\* C9 witness: update_saturations has run with a rate in (0, 1] and changed a
\* saturation.
C9_Witness ==
    /\ LastCall = "update_saturations"
    /\ config.saturation_diffusion_rate <= RateDen
    /\ \E c \in DOMAIN elements : elements[c].saturation # before[c].saturation

\* C10: update_elements turns Air into Water iff its saturation is at or above
\* air_to_water_saturation_threshold, Water into Air iff its saturation is
\* below water_to_air_saturation_threshold, leaves Soil alone, decides each
\* tile on what it was before the call, and changes no saturation.
C10_ElementTransitions ==
    LastCall = "update_elements" =>
        \A c \in Coords(width, height) :
            /\ elements[c].saturation = before[c].saturation
            /\ before[c].element = "Air" =>
                  elements[c].element =
                      IF before[c].saturation >= config.air_to_water_saturation_threshold
                      THEN "Water" ELSE "Air"
            /\ before[c].element = "Water" =>
                  elements[c].element =
                      IF before[c].saturation < config.water_to_air_saturation_threshold
                      THEN "Air" ELSE "Water"
            /\ before[c].element = "Soil" => elements[c].element = "Soil"

\* C10 witness: one update_elements has turned an Air tile at exactly the
\* threshold into Water, a Water tile into Air, and has left an Air tile, a
\* Water tile or a Soil tile as it was.
C10_Witness ==
    /\ LastCall = "update_elements"
    /\ \E a \in Coords(width, height), b \in Coords(width, height),
          c \in Coords(width, height) :
          /\ before[a].element = "Air" /\ elements[a].element = "Water"
          /\ before[a].saturation = config.air_to_water_saturation_threshold
          /\ before[b].element = "Water" /\ elements[b].element = "Air"
          /\ elements[c].element = before[c].element

\* The cells of the grid in the 3x3 block around c, c included.
Block3(c) ==
    {n \in Coords(width, height) :
        /\ n[1] - c[1] \in -1..1
        /\ n[2] - c[2] \in -1..1}

\* The orders in which the cells of the grid can be written.
WriteOrders ==
    {order \in [1..(width * height) -> Coords(width, height)] :
        \A c \in Coords(width, height) : \E i \in DOMAIN order : order[i] = c}

CountIn(g, E) == Cardinality({c \in DOMAIN g : g[c].element \in E})

\* C29: no step of State::update changes the number of Soil tiles or the
\* number of Air and Water tiles together, so both stay what they were,
\* however many ticks have run.
C29_ElementCounts ==
    /\ CountIn(elements, {"Soil"}) = CountIn(before, {"Soil"})
    /\ CountIn(elements, {"Air", "Water"}) = CountIn(before, {"Air", "Water"})

\* C29 witness: the last State::update has ended on a grid with Soil where its
\* update_elements changed the element of a tile.
C29_Witness ==
    /\ ticks = MaxTicks
    /\ calls = UpdateOrder
    /\ CountIn(elements, {"Soil"}) >= 1
    /\ \E c \in Coords(width, height) : elements[c].element # before[c].element

(* ------------------- update_elements, again and again ------------------ *)

\* No call of reduce_potential_moves under way.
ResolveIdle ==
    /\ preferences = <<>>
    /\ closed = <<>>
    /\ current = <<>>
    /\ scores = <<>>
    /\ conflicts = <<>>
    /\ built = <<>>
    /\ prevCurrent = <<>>
    /\ iters = 0
    /\ conflictIters = 0
    /\ orphans = <<>>
    /\ slots = <<>>
    /\ tree = {}
    /\ orphanLog = <<>>
    /\ moves = <<>>
    /\ pc = "idle"
    /\ panicMsg = ""

\* Any tile: Tile's fields, a saturation anywhere in [0, 1].
Tiles == [element : Element, saturation : 0..SatDen]

\* Config::gen draws each threshold on its own, anywhere in [0, 1).
GenThresholds == 0..(SatDen - 1)

\* A state of one tile and a Config out of Config::gen; no State::update runs.
InitRepeat ==
    /\ width = 1
    /\ height = 1
    /\ elements \in [Coords(1, 1) -> Tiles]
    /\ config \in [air_to_water_saturation_threshold : GenThresholds,
                   water_to_air_saturation_threshold : GenThresholds,
                   saturation_diffusion_rate : {RateDen}]
    /\ phase = "update_elements"
    /\ calls = <<>>
    /\ ticks = 0
    /\ before = elements
    /\ lastMoves = <<>>
    /\ trail = <<elements>>
    /\ ResolveIdle
    /\ BesidesRepeatIdle

\* State::update_elements, called with the saturations as the call before
\* left them.
RepeatUpdateElements ==
    /\ phase = "update_elements"
    /\ Len(trail) <= MaxApplications
    /\ before' = elements
    /\ elements' =
         [c \in Coords(width, height) |->
             [element |-> UpdatedElement(elements[c], config),
              saturation |-> elements[c].saturation]]
    /\ trail' = Append(trail, elements')
    /\ calls' = Append(calls, "update_elements")
    /\ UNCHANGED <<config, phase, ticks, lastMoves, resolveVars, besidesRepeat>>

NextRepeat == RepeatUpdateElements

SpecRepeat == InitRepeat /\ [][NextRepeat]_vars

\* The applications of update_elements that changed the element at c.
ChangesAt(c) ==
    {i \in 1..(Len(trail) - 1) : trail[i][c].element # trail[i + 1][c].element}

\* C11: with its saturation held constant, a tile changes its element at most
\* once however often update_elements is applied.
C11_NoOscillation ==
    \A c \in Coords(width, height) : Cardinality(ChangesAt(c)) <= 1

(* --------------------------- Grid, ArrayGrid --------------------------- *)

\* No State.
TickIdle ==
    /\ elements = <<>>
    /\ config = <<>>
    /\ phase = "idle"
    /\ calls = <<>>
    /\ ticks = 0
    /\ before = <<>>
    /\ lastMoves = <<>>

\* Grid::new: width * height cells, the one at index x + width * y (from 0)
\* made by init(x, y).  A cell holds 0 as long as nobody has written to it.
GridNew(w, h) ==
    [kind |-> "Grid", width |-> w, height |-> h, cells |-> [i \in 1..(w * h) |-> 0]]

\* Grid::from_cells with a vector of n cells.
GridFromCells(w, h, n) ==
    [kind |-> "Grid", width |-> w, height |-> h, cells |-> [i \in 1..n |-> 0]]

\* ArrayGrid::new: H rows of W cells, cells[y][x] made by init(x, y).
ArrayGridNew(w, h) ==
    [kind |-> "ArrayGrid", width |-> w, height |-> h,
     cells |-> [y \in 1..h |-> [x \in 1..w |-> 0]]]

\* cells.len()
CellsLen(g) == Len(g.cells)

\* Grid::get, Grid::get_mut: the slot of cells returned (an index from 0), or
\* None.  Vec::get gives None past the end of cells.
GridGet(g, x, y) ==
    IF ~InGrid(g.width, g.height, <<x, y>>) THEN None
    ELSE IF x + g.width * y >= 0 /\ x + g.width * y < Len(g.cells)
         THEN <<x + g.width * y>>
         ELSE None

\* What a get that panicked is recorded to have returned.
Panicked == <<-1, -1, -1>>

\* ArrayGrid::get, ArrayGrid::get_mut: the slot cells[y][x] as <<x, y>>, or
\* None; Panicked where the indexing would leave the arrays.
ArrayGridGet(g, x, y) ==
    IF ~InGrid(g.width, g.height, <<x, y>>) THEN None
    ELSE IF y >= 0 /\ y < Len(g.cells) /\ x >= 0 /\ x < Len(g.cells[y + 1])
         THEN <<x, y>>
         ELSE Panicked

\* get / get_mut of either kind.
GetOf(g, x, y) ==
    IF g.kind = "Grid" THEN GridGet(g, x, y) ELSE ArrayGridGet(g, x, y)

\* A write of v through the reference get_mut returned.
Written(g, slot, v) ==
    IF g.kind = "Grid"
    THEN [g EXCEPT !.cells[slot[1] + 1] = v]
    ELSE [g EXCEPT !.cells[slot[2] + 1][slot[1] + 1] = v]

\* Grid::fill, ArrayGrid::fill
Filled(g, v) ==
    IF g.kind = "Grid"
    THEN [g EXCEPT !.cells = [i \in 1..Len(g.cells) |-> v]]
    ELSE [g EXCEPT !.cells =
              [y \in 1..Len(g.cells) |-> [x \in 1..Len(g.cells[y]) |-> v]]]

\* The coordinates a caller asks for: every one of the grid, and one step
\* outside on each side.
Probes == (-1)..MaxSide

\* A grid out of a public constructor.
InitGrid ==
    /\ \E w \in 0..MaxSide, h \in 0..MaxSide :
         \/ grid = GridNew(w, h) /\ made = <<"new", w * h>>
         \/ grid = ArrayGridNew(w, h) /\ made = <<"new", h>>
         \/ \E n \in 0..(MaxSide * MaxSide + 1) :
              grid = GridFromCells(w, h, n) /\ made = <<"from_cells", n>>
    /\ gridOp = <<"constructed">>
    /\ width = 0
    /\ height = 0
    /\ ResolveIdle
    /\ TickIdle
    /\ BesidesGridIdle

\* GridLike::get
Get ==
    /\ gridOp[1] # "panic"
    /\ \E x \in Probes, y \in Probes :
         gridOp' = <<IF GetOf(grid, x, y) = Panicked THEN "panic" ELSE "get",
                     x, y, GetOf(grid, x, y)>>
    /\ UNCHANGED <<grid, made, width, height, resolveVars, tickVars, besidesGrid>>

\* get_mut, and a write through the reference it returned.
GetMut ==
    /\ gridOp[1] # "panic"
    /\ \E x \in Probes, y \in Probes :
         /\ gridOp' = <<IF GetOf(grid, x, y) = Panicked THEN "panic" ELSE "get_mut",
                        x, y, GetOf(grid, x, y)>>
         /\ grid' = IF GetOf(grid, x, y) = None \/ GetOf(grid, x, y) = Panicked
                    THEN grid
                    ELSE Written(grid, GetOf(grid, x, y), 1)
    /\ UNCHANGED <<made, width, height, resolveVars, tickVars, besidesGrid>>

\* fill
Fill ==
    /\ gridOp[1] # "panic"
    /\ grid' = Filled(grid, 1)
    /\ grid' # grid
    /\ gridOp' = <<"fill">>
    /\ UNCHANGED <<made, width, height, resolveVars, tickVars, besidesGrid>>

NextGrid == Get \/ GetMut \/ Fill

SpecGrid == InitGrid /\ [][NextGrid]_vars

(* ----------------------- properties of the grids ----------------------- *)

\* The last operation was a get or a get_mut (one that did not panic).
Asked == gridOp[1] \in {"get", "get_mut"}

\* The coordinate asked for lies in the grid.
AskedInRange ==
    /\ 0 <= gridOp[2] /\ gridOp[2] < grid.width
    /\ 0 <= gridOp[3] /\ gridOp[3] < grid.height

\* The slot a constructor's init(x, y) filled: cells[x + width * y] of a
\* Grid, cells[y][x] of an ArrayGrid.
SlotCreatedFor(g, x, y) == IF g.kind = "Grid" THEN <<x + g.width * y>> ELSE <<x, y>>

C13_CellsLenInvariant ==
    grid.kind = "Grid" => CellsLen(grid) = grid.width * grid.height

\* C13, the part that holds: no operation changes the number of cells.
C13_CellsLenKept == grid.kind = "Grid" => CellsLen(grid) = made[2]

(* ---------------------------- GridEnumerator --------------------------- *)

\* v as usize, for an isize v
AsUsize(v) == IF v < 0 THEN v + 2 ^ UsizeBits ELSE v

\* (n - 1) as isize for a usize n, where the build wraps: -1 for n = 0.  A
\* build with overflow checks panics there instead.
PredAsIsize(n) == n - 1

\* GridEnumerator::new on a grid of width w and height h.
EnumeratorNew(w, h) ==
    [width |-> w, height |-> h, x |-> 0, y |-> 0,
     rx |-> PredAsIsize(w), ry |-> PredAsIsize(h)]

\* GridEnumerator::next: the item returned, None at the end.
NextItem(e) == IF AsUsize(e.y) >= e.height THEN None ELSE <<AsUsize(e.x), AsUsize(e.y)>>

\* GridEnumerator::next: the enumerator afterwards.
AfterNext(e) ==
    IF AsUsize(e.y) >= e.height THEN e
    ELSE IF AsUsize(e.x + 1) >= e.width
         THEN [e EXCEPT !.y = e.y + 1, !.x = 0]
         ELSE [e EXCEPT !.x = e.x + 1]

\* DoubleEndedIterator::next_back: the item returned, None at the end.
NextBackItem(e) == IF e.ry < 0 THEN None ELSE <<AsUsize(e.rx), AsUsize(e.ry)>>

\* next_back: the enumerator afterwards.
AfterNextBack(e) ==
    IF e.ry < 0 THEN e
    ELSE IF e.rx - 1 < 0
         THEN [e EXCEPT !.ry = e.ry - 1, !.rx = PredAsIsize(e.width)]
         ELSE [e EXCEPT !.rx = e.rx - 1]

\* next_back computes width - 1 again when it leaves a row: with overflow
\* checks and width 0 it panics there.
NextBackOverflows(e) == e.ry >= 0 /\ e.rx - 1 < 0 /\ e.width = 0

\* GridEnumerator::new on a grid of any width and height 0..MaxSide.  Where a
\* side is 0 the subtraction overflows: the build either wraps or panics.
InitEnum ==
    /\ \E w \in 0..MaxSide, h \in 0..MaxSide :
         /\ enumerator = EnumeratorNew(w, h)
         /\ \/ returned = <<"new">>
            \/ (w = 0 \/ h = 0) /\ returned = <<"panic">>
    /\ yielded = <<>>
    /\ width = 0
    /\ height = 0
    /\ ResolveIdle
    /\ TickIdle
    /\ BesidesEnumIdle

\* Iterator::next
EnumNext ==
    /\ returned[1] # "panic"
    /\ Len(yielded) <= 2 * MaxSide * MaxSide
    /\ returned' = <<"next", NextItem(enumerator)>>
    /\ yielded' = IF NextItem(enumerator) = None THEN yielded
                  ELSE Append(yielded, <<"next", NextItem(enumerator)>>)
    /\ enumerator' = AfterNext(enumerator)
    /\ UNCHANGED <<width, height, resolveVars, tickVars, besidesEnum>>

\* DoubleEndedIterator::next_back
EnumNextBack ==
    /\ returned[1] # "panic"
    /\ Len(yielded) <= 2 * MaxSide * MaxSide
    /\ \/ /\ returned' = <<"next_back", NextBackItem(enumerator)>>
          /\ yielded' = IF NextBackItem(enumerator) = None THEN yielded
                        ELSE Append(yielded, <<"next_back", NextBackItem(enumerator)>>)
          /\ enumerator' = AfterNextBack(enumerator)
       \/ /\ NextBackOverflows(enumerator)
          /\ returned' = <<"panic">>
          /\ UNCHANGED <<yielded, enumerator>>
    /\ UNCHANGED <<width, height, resolveVars, tickVars, besidesEnum>>

NextEnum == EnumNext \/ EnumNextBack

SpecEnum == InitEnum /\ [][NextEnum]_vars

(* -------------------- properties of the enumerator --------------------- *)

\* The items yielded so far, in order.
Items == [i \in 1..Len(yielded) |-> yielded[i][2]]

\* Only this call has yielded anything.
OnlyCalled(call) == \A i \in 1..Len(yielded) : yielded[i][1] = call

\* s read backwards.
Reversed(s) == [i \in 1..Len(s) |-> s[Len(s) + 1 - i]]

\* C14: used forwards only, the enumerator yields the coordinates of its grid in
\* row-major order, each once: width * height items, then None.
C14_ForwardRowMajor ==
    /\ returned[1] # "panic"
    /\ OnlyCalled("next") =>
          /\ Len(yielded) <= enumerator.width * enumerator.height
          /\ Items = SubSeq(Enumerate(enumerator.width, enumerator.height),
                            1, Len(yielded))
          /\ returned = <<"next", None>> =>
                Len(yielded) = enumerator.width * enumerator.height

\* C15: used as a double-ended iterator, the enumerator yields no coordinate
\* twice and at most width * height items, whatever the order of the next and
\* next_back calls; with next_back only, they come in reverse row-major order.
\* (Stated for grids with no side of 0, where the constructor does not overflow.)
C15_DoubleEndedOnce ==
    (enumerator.width >= 1 /\ enumerator.height >= 1) =>
        /\ Len(yielded) <= enumerator.width * enumerator.height
        /\ \A i \in 1..Len(yielded), j \in 1..Len(yielded) :
              i # j => yielded[i][2] # yielded[j][2]
        /\ OnlyCalled("next_back") =>
              Items = SubSeq(Reversed(Enumerate(enumerator.width, enumerator.height)),
                             1, Len(yielded))

(* ------------------------------ GridWindow ----------------------------- *)

\* The offsets with x outermost and y innermost.
WindowOffsetSeqColumnMajor(size) ==
    [i \in 1..(size * size) |->
        <<((i - 1) \div size) - (size \div 2), ((i - 1) % size) - (size \div 2)>>]

\* GridWindow::iter / enumerate: the offsets in the order the flat_map makes
\* them, y outermost and x innermost.
WindowOffsetSeq(size) ==
    [i \in 1..(size * size) |->
        <<((i - 1) % size) - (size \div 2), ((i - 1) \div size) - (size \div 2)>>]

\* GridWindow::enumerate on a window of the given size at c, on a grid of width
\* w and height h: (x, y, cell) for the offsets that get keeps.
WindowEnumerate(w, h, c, size) ==
    LET Kept(o) == WindowGet(w, h, c, o) # None
        offs == SelectSeq(WindowOffsetSeq(size), Kept)
    IN [i \in 1..Len(offs) |-> <<offs[i][1], offs[i][2], WindowGet(w, h, c, offs[i])>>]

\* GridWindow::iter: the cells alone.
WindowIterate(w, h, c, size) ==
    LET Kept(o) == WindowGet(w, h, c, o) # None
        offs == SelectSeq(WindowOffsetSeq(size), Kept)
    IN [i \in 1..Len(offs) |-> WindowGet(w, h, c, offs[i])]

\* GridLike::window_at on a Grid::new grid, for any centre and size.
InitWindow ==
    /\ \E w \in 0..MaxWindow, h \in 0..MaxWindow,
          x \in 0..MaxWindow, y \in 0..MaxWindow, size \in 1..MaxWindow :
         window = [width |-> w, height |-> h, x |-> x, y |-> y, size |-> size]
    /\ windowOp = [call |-> "window_at", at |-> <<0, 0>>, out |-> <<>>]
    /\ width = 0
    /\ height = 0
    /\ ResolveIdle
    /\ TickIdle
    /\ BesidesWindowIdle

\* GridWindow::get
WindowGetCall ==
    /\ \E dx \in (-MaxWindow)..MaxWindow, dy \in (-MaxWindow)..MaxWindow :
         windowOp' = [call |-> "get", at |-> <<dx, dy>>,
                      out |-> WindowGet(window.width, window.height,
                                        <<window.x, window.y>>, <<dx, dy>>)]
    /\ UNCHANGED <<window, width, height, resolveVars, tickVars, besidesWindow>>

\* GridWindow::iter
WindowIterCall ==
    /\ windowOp' = [call |-> "iter", at |-> <<0, 0>>,
                    out |-> WindowIterate(window.width, window.height,
                                          <<window.x, window.y>>, window.size)]
    /\ UNCHANGED <<window, width, height, resolveVars, tickVars, besidesWindow>>

\* GridWindow::enumerate
WindowEnumerateCall ==
    /\ windowOp' = [call |-> "enumerate", at |-> <<0, 0>>,
                    out |-> WindowEnumerate(window.width, window.height,
                                            <<window.x, window.y>>, window.size)]
    /\ UNCHANGED <<window, width, height, resolveVars, tickVars, besidesWindow>>

NextWindow == WindowGetCall \/ WindowIterCall \/ WindowEnumerateCall

SpecWindow == InitWindow /\ [][NextWindow]_vars

(* ---------------------- properties of the window ----------------------- *)

\* The offsets of the size x size block around the centre.
BlockRange == (-(window.size \div 2))..(window.size - 1 - (window.size \div 2))

\* The cells of the grid under the block.
BlockCells ==
    {<<window.x + dx, window.y + dy>> : dx \in BlockRange, dy \in BlockRange}
        \cap Coords(window.width, window.height)

\* a comes before b in row-major order.
RowMajorBefore(a, b) == a[2] < b[2] \/ (a[2] = b[2] /\ a[1] < b[1])

\* How many cells a 3x3 window has on a grid with sides of 2 or more: 4 at a
\* corner, 6 on an edge, 9 inside.
ExpectedCount ==
    LET onX == window.x \in {0, window.width - 1}
        onY == window.y \in {0, window.height - 1}
    IN IF onX /\ onY THEN 4 ELSE IF onX \/ onY THEN 6 ELSE 9

\* C16: get(dx, dy) is the grid's cell at (cx + dx, cy + dy), None outside the
\* grid; iter and enumerate yield exactly the in-grid cells under the size x
\* size block around the centre, in row-major order of offset; a 3x3 window
\* yields 4 cells at a corner, 6 on an edge and 9 inside.
C16_WindowView ==
    LET out == windowOp.out
        n == Len(out)
    IN
    /\ windowOp.call = "get" =>
          out = IF /\ 0 <= window.x + windowOp.at[1]
                   /\ window.x + windowOp.at[1] < window.width
                   /\ 0 <= window.y + windowOp.at[2]
                   /\ window.y + windowOp.at[2] < window.height
                THEN <<window.x + windowOp.at[1], window.y + windowOp.at[2]>>
                ELSE None
    /\ windowOp.call = "enumerate" =>
          /\ \A i \in 1..n :
                /\ out[i][1] \in BlockRange
                /\ out[i][2] \in BlockRange
                /\ out[i][3] = <<window.x + out[i][1], window.y + out[i][2]>>
          /\ {out[i][3] : i \in 1..n} = BlockCells
          /\ \A i \in 1..n, j \in 1..n : i < j => RowMajorBefore(out[i], out[j])
    /\ windowOp.call = "iter" =>
          /\ {out[i] : i \in 1..n} = BlockCells
          /\ \A i \in 1..n, j \in 1..n : i < j => RowMajorBefore(out[i], out[j])
    /\ ( /\ windowOp.call \in {"iter", "enumerate"}
         /\ window.size = 3
         /\ window.width >= 2
         /\ window.height >= 2
         /\ <<window.x, window.y>> \in Coords(window.width, window.height) ) =>
          n = ExpectedCount

\* A 3x3 window at a corner of a 3x3 grid has been enumerated: 4 cells.
C16_Witness ==
    /\ windowOp.call = "enumerate"
    /\ window = [width |-> 3, height |-> 3, x |-> 2, y |-> 0, size |-> 3]
    /\ Len(windowOp.out) = 4

(* ------------------------------- PageFlip ------------------------------ *)

\* PageFlip::new: init() called for each buffer.
PageFlipNew(a, b) == [p1 |-> a, p2 |-> b, flipped |-> FALSE]

\* PageFlip::read: the field it borrows.
ReadBuffer(pf) == IF pf.flipped THEN "p2" ELSE "p1"

\* write borrowing the field that read borrows.
WriteBufferSame(pf) == IF pf.flipped THEN "p2" ELSE "p1"

\* PageFlip::write: the field it borrows.
WriteBuffer(pf) == IF pf.flipped THEN "p1" ELSE "p2"

\* PageFlip::read: what the borrowed buffer holds.
Read(pf) == pf[ReadBuffer(pf)]

\* *pf.write() = v
WrittenThrough(pf, v) == [pf EXCEPT ![WriteBuffer(pf)] = v]

\* PageFlip::flip
Flipped(pf) == [pf EXCEPT !.flipped = ~pf.flipped]

InitPage ==
    /\ \E a \in 0..MaxPageValue, b \in 0..MaxPageValue : pageflip = PageFlipNew(a, b)
    /\ pageTrail = <<[op |-> "new", pf |-> pageflip]>>
    /\ width = 0
    /\ height = 0
    /\ ResolveIdle
    /\ TickIdle
    /\ BesidesPageIdle

\* A store through write(), as ForceField::init and ForceField::update make.
PageWrite ==
    /\ Len(pageTrail) <= MaxPageOps
    /\ \E v \in 0..MaxPageValue : pageflip' = WrittenThrough(pageflip, v)
    /\ pageTrail' = Append(pageTrail, [op |-> "write", pf |-> pageflip'])
    /\ UNCHANGED <<width, height, resolveVars, tickVars, besidesPage>>

\* flip(), as at the end of ForceField::init and ForceField::update.
PageFlipCall ==
    /\ Len(pageTrail) <= MaxPageOps
    /\ pageflip' = Flipped(pageflip)
    /\ pageTrail' = Append(pageTrail, [op |-> "flip", pf |-> pageflip'])
    /\ UNCHANGED <<width, height, resolveVars, tickVars, besidesPage>>

NextPage == PageWrite \/ PageFlipCall

SpecPage == InitPage /\ [][NextPage]_vars

\* C17: read() and write() designate different buffers; a flip exchanges their
\* roles, so read() after it gives the buffer (and the contents) write() gave
\* before it; two flips in a row restore the roles; a store through write()
\* leaves what read() returns unchanged.
C17_PageFlipRoles ==
    \A i \in 1..Len(pageTrail) :
        LET now == pageTrail[i].pf IN
        /\ ReadBuffer(now) # WriteBuffer(now)
        /\ {ReadBuffer(now), WriteBuffer(now)} = {"p1", "p2"}
        /\ (i > 1 /\ pageTrail[i].op = "flip") =>
              LET was == pageTrail[i - 1].pf IN
              /\ ReadBuffer(now) = WriteBuffer(was)
              /\ WriteBuffer(now) = ReadBuffer(was)
              /\ Read(now) = was[WriteBuffer(was)]
              /\ now.p1 = was.p1 /\ now.p2 = was.p2
        /\ (i > 2 /\ pageTrail[i].op = "flip" /\ pageTrail[i - 1].op = "flip") =>
              /\ ReadBuffer(now) = ReadBuffer(pageTrail[i - 2].pf)
              /\ WriteBuffer(now) = WriteBuffer(pageTrail[i - 2].pf)
              /\ now = pageTrail[i - 2].pf
        /\ (i > 1 /\ pageTrail[i].op = "write") =>
              LET was == pageTrail[i - 1].pf IN
              /\ ReadBuffer(now) = ReadBuffer(was)
              /\ Read(now) = Read(was)

\* A store through write() changed the write buffer, a flip made that the
\* buffer read, and a second flip followed.
C17_Witness ==
    \E i \in 3..(Len(pageTrail) - 1) :
        /\ pageTrail[i - 1].op = "write"
        /\ pageTrail[i - 1].pf # pageTrail[i - 2].pf
        /\ pageTrail[i].op = "flip"
        /\ Read(pageTrail[i].pf) # Read(pageTrail[i - 1].pf)
        /\ pageTrail[i + 1].op = "flip"

(* ---------------------- ForceField::potential_moves -------------------- *)

\* The (dx, dy) of the closure's flat_map that its filter keeps for the cell c.
MoveOffsets(w, h, c) ==
    {o \in {<<dx, dy>> : dx \in (-1)..1, dy \in (-1)..1} :
        ~(c[1] + o[1] < 0 \/ c[2] + o[2] < 0 \/ c[1] + o[1] >= w \/ c[2] + o[2] >= h)}

\* Vector2::new(dx, dy).try_normalize(EPSILON).unwrap_or(zeros()), in
\* ten-thousandths: the f32 components are 1, 0.70710677 or 0 in size.
Normalized(o) ==
    IF o[1] = 0 /\ o[2] = 0 THEN <<0, 0>>
    ELSE IF o[1] # 0 /\ o[2] # 0 THEN <<7071 * o[1], 7071 * o[2]>>
    ELSE <<10000 * o[1], 10000 * o[2]>>

\* The sort key without the Reverse.
MoveKeyAscending(o, f) == Normalized(o)[1] * f[1] + Normalized(o)[2] * f[2]

\* The sort key: Reverse(normalised offset . f), so the larger product sorts
\* first.
MoveKey(o, f) == 0 - (Normalized(o)[1] * f[1] + Normalized(o)[2] * f[2])

\* The vector moves before the sort: the offsets kept, dy outermost.
MovesCollected(w, h, c) ==
    LET Kept(o) == o \in MoveOffsets(w, h, c)
    IN SelectSeq(<<<<-1, -1>>, <<0, -1>>, <<1, -1>>,
                   <<-1, 0>>, <<0, 0>>, <<1, 0>>,
                   <<-1, 1>>, <<0, 1>>, <<1, 1>>>>, Kept)

\* The elements of S whose key is the least of those in S.
FirstClass(S, f) == {m \in S : \A n \in S : MoveKey(m, f) <= MoveKey(n, f)}

\* Every order of the elements of the vector mv that are in C.
OrdersOf(mv, C) ==
    LET InC(o) == o \in C
        sub == SelectSeq(mv, InC)
    IN {[i \in 1..Len(sub) |-> p[sub[i]]] : p \in Permutations(C)}

\* sort_unstable_by_key: every order of the elements of the vector mv in S that ascends
\* in the key; the order of equal keys is the sort's to choose.
RECURSIVE SortedByKey(_, _, _)
SortedByKey(mv, S, f) ==
    IF S = {} THEN {<<>>}
    ELSE {first \o rest : first \in OrdersOf(mv, FirstClass(S, f)),
                          rest \in SortedByKey(mv, S \ FirstClass(S, f), f)}

\* The closure's last map: offsets to absolute coordinates.
Absolute(c, offs) == [i \in 1..Len(offs) |-> <<c[1] + offs[i][1], c[2] + offs[i][2]>>]

Forces == {<<fx, fy>> : fx \in (-MaxForce)..MaxForce, fy \in (-MaxForce)..MaxForce}

\* The closure that potential_moves hands to Grid::new is about to be called
\* for one cell of a force field of any width and height 1..MaxField, the cell
\* holding any force.
InitForce ==
    /\ \E w \in 1..MaxField, h \in 1..MaxField :
         \E c \in Coords(w, h), f \in Forces :
            forces = [width |-> w, height |-> h, cell |-> c, f |-> f]
    /\ potential = <<>>
    /\ width = 0
    /\ height = 0
    /\ ResolveIdle
    /\ TickIdle
    /\ BesidesForceIdle

\* The closure runs: filter, sort, map, PotentialMoves::new.
PotentialMovesCell ==
    /\ potential = <<>>
    /\ \E offs \in SortedByKey(MovesCollected(forces.width, forces.height, forces.cell),
                               MoveOffsets(forces.width, forces.height, forces.cell),
                               forces.f) :
         potential' = Absolute(forces.cell, offs)
    /\ UNCHANGED <<forces, width, height, resolveVars, tickVars, besidesForce>>

NextForce == PotentialMovesCell

SpecForce == InitForce /\ [][NextForce]_vars

(* ------------------- properties of potential_moves --------------------- *)

\* The cell whose list potential holds.
ListCell == forces.cell

\* The cells of the grid in the 3x3 neighbourhood of c, c itself among them.
Neighbourhood(c) ==
    {d \in Coords(forces.width, forces.height) :
        /\ d[1] - c[1] \in (-1)..1
        /\ d[2] - c[2] \in (-1)..1}

\* a / sqrt(2)^p < b / sqrt(2)^q for integers a, b and p, q in {0, 1}, exactly.
LessOverRoot(a, p, b, q) ==
    IF p = q THEN a < b
    ELSE IF p = 0
         THEN IF a >= 0 THEN b >= 0 /\ 2 * a * a < b * b
              ELSE b >= 0 \/ 2 * a * a > b * b
         ELSE IF a >= 0 THEN b >= 0 /\ a * a < 2 * b * b
              ELSE b >= 0 \/ a * a > 2 * b * b

\* The offset of the entry d of the list of c has a smaller dot product of its
\* normalised self with the force f than that of the entry e.
DotLess(c, f, d, e) ==
    LET od == <<d[1] - c[1], d[2] - c[2]>>
        oe == <<e[1] - c[1], e[2] - c[2]>>
        Diagonal(o) == IF o[1] # 0 /\ o[2] # 0 THEN 1 ELSE 0
    IN LessOverRoot(od[1] * f[1] + od[2] * f[2], Diagonal(od),
                    oe[1] * f[1] + oe[2] * f[2], Diagonal(oe))

\* C18: the list of a cell holds exactly the in-grid cells of its 3x3
\* neighbourhood, itself among them, each once and as absolute coordinates, in
\* order of non-increasing dot product of the normalised offset with the cell's
\* force; so it is not empty and every entry is in the grid.
C18_PotentialMoves ==
    potential # <<>> =>
        /\ {potential[i] : i \in 1..Len(potential)} = Neighbourhood(ListCell)
        /\ Len(potential) = Cardinality(Neighbourhood(ListCell))
        /\ ListCell \in {potential[i] : i \in 1..Len(potential)}
        /\ Len(potential) >= 1
        /\ \A i \in 1..Len(potential) : potential[i] \in Coords(forces.width, forces.height)
        /\ \A i \in 1..(Len(potential) - 1) :
              ~DotLess(ListCell, forces.f, potential[i], potential[i + 1])

\* The list of the middle cell of a 3x3 field under a force that is neither
\* zero nor along an axis or a diagonal: nine entries.
C18_Witness ==
    /\ forces.width = 3 /\ forces.height = 3
    /\ forces.cell = <<1, 1>>
    /\ forces.f = <<2, -1>>
    /\ Len(potential) = 9
    /\ potential[1] = <<2, 0>>
    /\ potential[2] = <<2, 1>>

(* -------------------------- PairwiseTileScorer ------------------------- *)

\* The tiles of the states scored: one of Air and one of Soil.
ScoredTiles ==
    {[element |-> "Air", saturation |-> 0], [element |-> "Soil", saturation |-> SatDen]}

\* Tile::density, cohesion and adhesion under a Config whose polynomials are
\* constants, in units that make them integers.
Density(t) == CASE t.element = "Air" -> 1 [] t.element = "Soil" -> 3 [] OTHER -> 2

Cohesion(t) == CASE t.element = "Air" -> 1 [] t.element = "Soil" -> 3 [] OTHER -> 2

Adhesion(t) == CASE t.element = "Air" -> 2 [] t.element = "Soil" -> 5 [] OTHER -> 3

\* Tile::attractive_force
AttractiveForce(t, o) ==
    IF t.element = o.element THEN Cohesion(t) * Cohesion(o) ELSE Adhesion(t) * Adhesion(o)

\* n / d in sixtieths (exact for the densities above).
Quotient(n, d) == (60 * n) \div d

\* state.elements.get(x, y): the tile, None outside the grid.
TileAt(st, c) ==
    IF CellAt(st.width, st.height, c) = None THEN None
    ELSE <<st.tiles[CellAt(st.width, st.height, c)]>>

\* The sum a + b of two usize is too large for a usize.
AddOverflows(a, b) == a + b >= 2 ^ UsizeBits

\* PairwiseTileScorer::index, where arithmetic wraps.
Index(w, x, y, dx, dy) ==
    ((AsUsize(y + WINDOW_SIZE_OV_2) * w + AsUsize(x + WINDOW_SIZE_OV_2)) * BUCKET_SIZE
        + AsUsize(dy) * WINDOW_SIZE + AsUsize(dx)) % (2 ^ UsizeBits)

\* PairwiseTileScorer::index, where arithmetic is checked: one of its sums
\* overflows.
IndexOverflows(w, x, y, dx, dy) ==
    \/ AddOverflows(AsUsize(y + WINDOW_SIZE_OV_2) * w, AsUsize(x + WINDOW_SIZE_OV_2))
    \/ AddOverflows((AsUsize(y + WINDOW_SIZE_OV_2) * w + AsUsize(x + WINDOW_SIZE_OV_2))
                        * BUCKET_SIZE, AsUsize(dy) * WINDOW_SIZE)
    \/ AddOverflows((AsUsize(y + WINDOW_SIZE_OV_2) * w + AsUsize(x + WINDOW_SIZE_OV_2))
                        * BUCKET_SIZE + AsUsize(dy) * WINDOW_SIZE, AsUsize(dx))

\* The (dx, dy) of the two inner loops of new, in the order they run.
Deltas ==
    <<<<0, 0>>, <<1, 0>>, <<2, 0>>,
      <<-2, 1>>, <<-1, 1>>, <<0, 1>>, <<1, 1>>, <<2, 1>>,
      <<-2, 2>>, <<-1, 2>>, <<0, 2>>, <<1, 2>>, <<2, 2>>>>

\* The k-th pass (from 1) through the body of the four loops of new, for a
\* scorer of width w: x, y (after the shift by WINDOW_SIZE_OV_2), dx, dy.
PassOf(w, k) ==
    LET cell == (k - 1) \div Len(Deltas)
        d == Deltas[((k - 1) % Len(Deltas)) + 1]
    IN [x |-> (cell % w) - WINDOW_SIZE_OV_2, y |-> (cell \div w) - WINDOW_SIZE_OV_2,
        dx |-> d[1], dy |-> d[2]]

\* The (an, dn) that a pass computes.
PairScore(st, p) ==
    LET t == TileAt(st, <<p.x, p.y>>)
        other == TileAt(st, <<p.x + p.dx, p.y + p.dy>>)
    IN IF t = None /\ other = None THEN <<0, 0>>
       ELSE IF t = None THEN <<Adhesion(other[1]) * Adhesion(other[1]), 0>>
       ELSE IF other = None THEN <<Adhesion(t[1]) * Adhesion(t[1]), 0>>
       ELSE <<AttractiveForce(t[1], other[1]),
              Quotient(Density(other[1]) - Density(t[1]), Density(other[1]) + Density(t[1]))>>

\* What the passes lo..hi of new write, slot by slot (scores[i] of the code is
\* slot i + 1 here): a later pass overwrites an earlier one.
RECURSIVE PassWrites(_, _, _, _)
PassWrites(st, w, lo, hi) ==
    IF lo = hi
    THEN LET p == PassOf(w, lo)
         IN (Index(w, p.x, p.y, p.dx, p.dy) + 1) :> PairScore(st, p)
    ELSE PassWrites(st, w, (lo + hi) \div 2 + 1, hi) @@ PassWrites(st, w, lo, (lo + hi) \div 2)

\* this.scores at the end of new: vec![(0.0, 0.0); ..] and then the passes.
ScoresBuilt(st, w, h) ==
    LET written == PassWrites(st, w, 1, w * h * Len(Deltas))
    IN [i \in 1..(w * h * BUCKET_SIZE) |->
            IF i \in DOMAIN written THEN written[i] ELSE <<0, 0>>]

\* Some pass of new computes an index outside this.scores: a panic.
NewOutOfBounds(w, h) ==
    \E k \in 1..(w * h * Len(Deltas)) :
        LET p == PassOf(w, k) IN Index(w, p.x, p.y, p.dx, p.dy) >= w * h * BUCKET_SIZE

\* Some pass of new overflows in index.
NewOverflows(w, h) ==
    \E k \in 1..(w * h * Len(Deltas)) :
        LET p == PassOf(w, k) IN IndexOverflows(w, p.x, p.y, p.dx, p.dy)

\* PairwiseTileScorer::new where it does not panic.
ScorerNew(st) ==
    LET w == st.width + WINDOW_SIZE_OV_2
        h == st.height + WINDOW_SIZE_OV_2
    IN [panicked |-> FALSE, width |-> w,
        scores |-> ScoresBuilt(st, w, h)]

\* What a scorer whose new panicked is recorded as.
NoScorer == [panicked |-> TRUE, width |-> 0, scores |-> <<>>]

\* What a call that panicked is recorded to have returned.
ScorePanicked == <<-1, -1, -1>>

\* self.scores[i]
ScoreSlot(sc, i) == IF i + 1 \in 1..Len(sc.scores) THEN sc.scores[i + 1] ELSE ScorePanicked

\* get taking the first branch whenever dy >= 0.
ScorerGetRowOnly(sc, t, other) ==
    LET dx == other[1] - t[1]
        dy == other[2] - t[2]
    IN IF dy >= 0
       THEN ScoreSlot(sc, Index(sc.width, t[1], t[2], dx, dy))
       ELSE LET s == ScoreSlot(sc, Index(sc.width, other[1], other[2], -dx, -dy))
            IN IF s = ScorePanicked THEN s ELSE <<s[1], 0 - s[2]>>

\* PairwiseTileScorer::get
ScorerGet(sc, t, other) ==
    LET dx == other[1] - t[1]
        dy == other[2] - t[2]
    IN IF dy > 0 \/ (dy >= 0 /\ dx >= 0)
       THEN ScoreSlot(sc, Index(sc.width, t[1], t[2], dx, dy))
       ELSE LET s == ScoreSlot(sc, Index(sc.width, other[1], other[2], -dx, -dy))
            IN IF s = ScorePanicked THEN s ELSE <<s[1], 0 - s[2]>>

\* A State of any width and height 1..MaxScored and any tiles, and the scorer
\* that new builds from it.  index adds dx as usize for dx < 0: the sum
\* overflows, and a build that checks overflow panics there.
InitScore ==
    /\ \E w \in 1..MaxScored, h \in 1..MaxScored :
         \E tiles \in [Coords(w, h) -> ScoredTiles] :
            scored = [width |-> w, height |-> h, tiles |-> tiles]
    /\ \/ /\ ~NewOutOfBounds(scored.width + WINDOW_SIZE_OV_2,
                             scored.height + WINDOW_SIZE_OV_2)
          /\ scorer = ScorerNew(scored)
       \/ /\ \/ NewOverflows(scored.width + WINDOW_SIZE_OV_2,
                             scored.height + WINDOW_SIZE_OV_2)
             \/ NewOutOfBounds(scored.width + WINDOW_SIZE_OV_2,
                               scored.height + WINDOW_SIZE_OV_2)
          /\ scorer = NoScorer
    /\ scoreOp = [call |-> "new", t |-> <<0, 0>>, other |-> <<0, 0>>,
                  out |-> <<>>, back |-> <<>>, neighbors |-> <<>>, read |-> <<>>]
    /\ width = 0
    /\ height = 0
    /\ ResolveIdle
    /\ TickIdle
    /\ BesidesScoreIdle

\* The positions within WINDOW_SIZE_OV_2 of c in both directions.
Around(c) ==
    {<<c[1] + dx, c[2] + dy>> :
        dx \in (-WINDOW_SIZE_OV_2)..WINDOW_SIZE_OV_2,
        dy \in (-WINDOW_SIZE_OV_2)..WINDOW_SIZE_OV_2}

\* get(t, other) and get(other, t) for two positions of the grid.  The calls
\* on a scorer borrow it unchanged, so one call after new is every call.
GetBothWays ==
    /\ ~scorer.panicked
    /\ scoreOp.call = "new"
    /\ \E t \in Coords(scored.width, scored.height) :
         \E other \in Around(t) \cap Coords(scored.width, scored.height) :
            scoreOp' = [scoreOp EXCEPT !.call = "get", !.t = t, !.other = other,
                                       !.out = ScorerGet(scorer, t, other),
                                       !.back = ScorerGet(scorer, other, t),
                                       !.neighbors = <<>>, !.read = <<>>]
    /\ UNCHANGED <<scored, scorer, width, height, resolveVars, tickVars, besidesScore>>

\* select_other leaving every position as it is.
SelectOtherKeeps(t, d, o) == o

\* position_score, the closure select_other: the mover's own cell stands for
\* the destination.
SelectOther(t, d, o) == IF t[1] = o[1] /\ t[2] = o[2] THEN d ELSE o

\* The offsets of the array neighbors, in its order.
NeighborOffsets ==
    <<<<-1, -1>>, <<0, -1>>, <<1, -1>>, <<-1, 0>>, <<1, 0>>, <<-1, 1>>, <<0, 1>>, <<1, 1>>>>

\* position_score, the array neighbors for the mover t and the destination d.
Neighbors(t, d) ==
    [i \in 1..Len(NeighborOffsets) |->
        SelectOther(t, d, <<d[1] + NeighborOffsets[i][1], d[2] + NeighborOffsets[i][2]>>)]

\* config.neighbor_attraction_weights and neighbor_density_weights of the
\* Config scored under.
NeighborAttractionWeights == <<1, 2, 3, 4, 5, 6, 7, 8>>

NeighborDensityWeights == <<8, 7, 6, 5, 4, 3, 2, 1>>

\* attraction_score and density_score at the end of the loop over neighbors.
AttractionScore(read) == SumOver([i \in DOMAIN read |-> NeighborAttractionWeights[i] * read[i][1]], DOMAIN read)

DensityScore(read) == SumOver([i \in DOMAIN read |-> NeighborDensityWeights[i] * read[i][2]], DOMAIN read)

\* dx.abs().max(dy.abs())
Dist(t, d) ==
    LET ax == IF d[1] < t[1] THEN t[1] - d[1] ELSE d[1] - t[1]
        ay == IF d[2] < t[2] THEN t[2] - d[2] ELSE d[2] - t[2]
    IN IF ax > ay THEN ax ELSE ay

\* position_score: what it returns, in 600000ths (attraction in units, density
\* in sixtieths, 0.0001 for each step of distance), both score weights 1.
PositionScoreOf(t, d, read) ==
    IF \E i \in DOMAIN read : read[i] = ScorePanicked THEN ScorePanicked
    ELSE <<600000 * AttractionScore(read) + 10000 * DensityScore(read)
            - 60 * Dist(t, d)>>

\* position_score for a mover of the grid and a destination of the grid within
\* WINDOW_SIZE_OV_2 of it.
PositionScore ==
    /\ ~scorer.panicked
    /\ scoreOp.call = "new"
    /\ \E t \in Coords(scored.width, scored.height) :
         \E d \in Around(t) \cap Coords(scored.width, scored.height) :
            LET read == [i \in 1..Len(NeighborOffsets) |->
                            ScorerGet(scorer, t, Neighbors(t, d)[i])]
            IN scoreOp' = [scoreOp EXCEPT !.call = "position_score", !.t = t, !.other = d,
                                          !.out = PositionScoreOf(t, d, read),
                                          !.back = <<>>,
                                          !.neighbors = Neighbors(t, d), !.read = read]
    /\ UNCHANGED <<scored, scorer, width, height, resolveVars, tickVars, besidesScore>>

NextScore == GetBothWays \/ PositionScore

SpecScore == InitScore /\ [][NextScore]_vars

(* ---------------------- properties of the scorer ----------------------- *)

\* C19: for two distinct positions a and b of the grid within 2 of each other
\* in x and in y, get(a, b) and get(b, a) return the same attraction, and
\* density differences that are each the negation of the other.
C19_GetSymmetric ==
    (scoreOp.call = "get" /\ scoreOp.t # scoreOp.other) =>
        /\ scoreOp.out # ScorePanicked
        /\ scoreOp.back # ScorePanicked
        /\ scoreOp.out[1] = scoreOp.back[1]
        /\ scoreOp.out[2] = 0 - scoreOp.back[2]

\* get has been called both ways on a pair two apart in x and in y, one an Air
\* and one a Soil tile: the density differences are not 0.
C19_Witness ==
    /\ scoreOp.call = "get"
    /\ scoreOp.other[1] - scoreOp.t[1] = -2
    /\ scoreOp.other[2] - scoreOp.t[2] = 2
    /\ scoreOp.out[2] > 0
    /\ scoreOp.back[2] < 0

\* C20: scoring the mover t for an adjacent destination d, the neighbour slot
\* of d that is t's own cell is evaluated as the pair (t, d), every other slot
\* as the pair of t and that neighbour's own position; so t is never paired
\* with itself.
C20_SelfSubstitution ==
    ( /\ scoreOp.call = "position_score"
      /\ scoreOp.t # scoreOp.other
      /\ Dist(scoreOp.t, scoreOp.other) = 1 ) =>
        /\ Len(scoreOp.neighbors) = 8
        /\ \A i \in 1..Len(scoreOp.neighbors) :
              LET n == <<scoreOp.other[1] + NeighborOffsets[i][1],
                         scoreOp.other[2] + NeighborOffsets[i][2]>>
              IN /\ scoreOp.neighbors[i] = IF n = scoreOp.t THEN scoreOp.other ELSE n
                 /\ scoreOp.neighbors[i] # scoreOp.t
                 /\ scoreOp.read[i] = ScorerGet(scorer, scoreOp.t, scoreOp.neighbors[i])
        /\ Cardinality({i \in 1..Len(scoreOp.neighbors) :
                            scoreOp.neighbors[i] = scoreOp.other}) = 1

\* A Soil mover in the middle of a 3x3 grid has been scored for the Air cell
\* to its left.
C20_Witness ==
    /\ scoreOp.call = "position_score"
    /\ scored.width = 3 /\ scored.height = 3
    /\ scoreOp.t = <<1, 1>>
    /\ scoreOp.other = <<0, 1>>
    /\ scored.tiles[<<1, 1>>].element = "Soil"
    /\ scored.tiles[<<0, 1>>].element = "Air"
    /\ scoreOp.neighbors[5] = <<0, 1>>
    /\ scoreOp.read[5][2] < 0

\* The i-th neighbour position of the destination of the last call.
NeighborOf(i) ==
    <<scoreOp.other[1] + NeighborOffsets[i][1], scoreOp.other[2] + NeighborOffsets[i][2]>>

\* The tile of the mover of the last call.
MoverTile == scored.tiles[scoreOp.t]

\* C21: in position_score for an in-grid mover and an in-grid destination, every
\* neighbour position of the destination outside the grid is read as
\* (adhesion(mover)^2, 0).  (Stated for destinations at most one step from the
\* mover, the ones the resolver asks about.)
C21_EdgeContribution ==
    (scoreOp.call = "position_score" /\ Dist(scoreOp.t, scoreOp.other) <= 1) =>
        \A i \in 1..Len(scoreOp.read) :
            NeighborOf(i) \notin Coords(scored.width, scored.height) =>
                scoreOp.read[i] = <<Adhesion(MoverTile) * Adhesion(MoverTile), 0>>

\* What new computes for the pair of t and o: the match on the two tiles.
PairValue(t, o) == PairScore(scored, [x |-> t[1], y |-> t[2], dx |-> o[1] - t[1], dy |-> o[2] - t[2]])

\* C28: for an in-grid mover and an in-grid destination within 2 of it, each
\* of the 8 pairs read is the value computed for the mover and that neighbour:
\* no read is outside the vector or of a slot written for another pair.
C28_ReadsOwnPair ==
    scoreOp.call = "position_score" =>
        \A i \in 1..Len(scoreOp.read) :
            /\ scoreOp.read[i] # ScorePanicked
            /\ scoreOp.read[i] = PairValue(scoreOp.t, scoreOp.neighbors[i])

(* -------------------------------- Ranker ------------------------------- *)

\* Vec::swap(a, b), indices from 0.
Swapped(s, a, b) == [s EXCEPT ![a + 1] = s[b + 1], ![b + 1] = s[a + 1]]

\* Vec::swap panics on an index outside the vector.
SwapPanics(s, a, b) == a >= Len(s) \/ b >= Len(s)

\* Ranker::new
RankerNew(competitors, needed) ==
    [i |-> 0, j |-> 0, remaining |-> <<<<0, Len(competitors) - 1>>>>,
     competitors |-> competitors, needed |-> needed]

\* Ranker::current
Current(r) == r.j

\* Ranker::pivot
Pivot(r) == r.remaining[Len(r.remaining)][2]

\* The left part pushed only when it has three elements or more.
PushesLeftOverTwo(start, i, needed) == start + 2 < i /\ start <= needed - 1

\* rank: the test under which the part left of the pivot is pushed.
PushesLeft(start, i, needed) == start + 1 < i /\ start <= needed - 1

\* The right part starting at the pivot.
RightStartAtPivot(i) == i

\* rank: where the part right of the pivot starts.
RightStart(i) == i + 1

\* rank: the test under which the part right of the pivot is pushed.
PushesRight(i, end, needed) == i + 1 < end /\ i + 1 <= needed - 1

\* Ranker::rank: the Ranker afterwards and what the call returns.
Ranked(r, ordering) ==
    LET greater == ordering = "Greater"
        c1 == IF greater THEN Swapped(r.competitors, r.i, r.j) ELSE r.competitors
        i1 == IF greater THEN r.i + 1 ELSE r.i
        j1 == r.j + 1
    IN IF greater /\ SwapPanics(r.competitors, r.i, r.j) THEN [ranker |-> r, returns |-> "panic"]
       ELSE IF j1 # Pivot(r)
       THEN [ranker |-> [r EXCEPT !.competitors = c1, !.i = i1, !.j = j1], returns |-> "true"]
       ELSE LET start == r.remaining[Len(r.remaining)][1]
                end == r.remaining[Len(r.remaining)][2]
                popped == SubSeq(r.remaining, 1, Len(r.remaining) - 1)
                left == IF PushesLeft(start, i1, r.needed)
                        THEN Append(popped, <<start, i1 - 1>>) ELSE popped
                right == IF PushesRight(i1, end, r.needed)
                         THEN Append(left, <<RightStart(i1), end>>) ELSE left
            IN IF SwapPanics(c1, i1, end) THEN [ranker |-> r, returns |-> "panic"]
               ELSE IF right # <<>>
               THEN [ranker |-> [r EXCEPT !.competitors = Swapped(c1, i1, end),
                                          !.remaining = right,
                                          !.i = right[Len(right)][1],
                                          !.j = right[Len(right)][1]],
                     returns |-> "true"]
               ELSE [ranker |-> [r EXCEPT !.competitors = Swapped(c1, i1, end),
                                          !.remaining = right, !.i = i1, !.j = j1],
                     returns |-> "false"]

\* a.cmp(&b) for two integers.
Cmp(a, b) == IF a < b THEN "Less" ELSE IF a > b THEN "Greater" ELSE "Equal"

\* The vectors ranked: 1..n in any order, for n of 2..MaxCompetitors.
Competitors == UNION {Bijections(1..n) : n \in 2..MaxCompetitors}

\* The most rank calls a behaviour is followed for.
CallsFollowed(n) == (n * (n - 1)) \div 2 + 1

\* Ranker::new on at least two competitors, with needed of 1..len.
InitRank ==
    /\ \E competitors \in Competitors :
         \E needed \in 1..Len(competitors) :
            /\ ranker = RankerNew(competitors, needed)
            /\ rankLog = [input |-> competitors, calls |-> 0, returns |-> "new"]
    /\ width = 0
    /\ height = 0
    /\ ResolveIdle
    /\ TickIdle
    /\ BesidesRankIdle

\* The caller's loop goes on while rank returns true.
RankPending == rankLog.returns \in {"new", "true"}

\* rank called as the tests of ranker.rs call it: with the comparison of
\* competitors[current()] against competitors[pivot()].
RankCompared ==
    /\ RankPending
    /\ rankLog.calls < CallsFollowed(Len(ranker.competitors))
    /\ LET out == Ranked(ranker, Cmp(ranker.competitors[Current(ranker) + 1],
                                     ranker.competitors[Pivot(ranker) + 1]))
       IN /\ ranker' = out.ranker
          /\ rankLog' = [rankLog EXCEPT !.calls = rankLog.calls + 1, !.returns = out.returns]
    /\ UNCHANGED <<width, height, resolveVars, tickVars, besidesRank>>

\* rank called with any ordering at all.
RankAny ==
    /\ RankPending
    /\ rankLog.calls < CallsFollowed(Len(ranker.competitors))
    /\ \E ordering \in {"Less", "Equal", "Greater"} :
         LET out == Ranked(ranker, ordering)
         IN /\ ranker' = out.ranker
            /\ rankLog' = [rankLog EXCEPT !.calls = rankLog.calls + 1, !.returns = out.returns]
    /\ UNCHANGED <<width, height, resolveVars, tickVars, besidesRank>>

NextRank == RankCompared

SpecRank == InitRank /\ [][NextRank]_vars

NextRankAny == RankAny

SpecRankAny == InitRank /\ [][NextRankAny]_vars

(* ----------------------- properties of the Ranker ---------------------- *)

\* C22: given true comparisons, rank returns true while a part remains on the
\* stack and false when none does; then competitors is a permutation of the
\* input whose first needed entries are the needed greatest, descending.
C22_RankSorts ==
    /\ rankLog.returns # "panic"
    /\ rankLog.returns = "false" <=> ranker.remaining = <<>>
    /\ rankLog.returns \in {"new", "true"} =>
          /\ Current(ranker) < Len(ranker.competitors)
          /\ Pivot(ranker) < Len(ranker.competitors)
          /\ rankLog.calls < CallsFollowed(Len(ranker.competitors))
    /\ rankLog.returns = "false" =>
          /\ Len(ranker.competitors) = Len(rankLog.input)
          /\ {ranker.competitors[k] : k \in 1..Len(ranker.competitors)}
                = {rankLog.input[k] : k \in 1..Len(rankLog.input)}
          /\ \A k \in 1..ranker.needed :
                ranker.competitors[k] = Len(rankLog.input) + 1 - k

\* The top two of four competitors given in ascending order have been ranked;
\* the rest is left unsorted.
C22_Witness ==
    /\ rankLog.returns = "false"
    /\ rankLog.input = <<1, 2, 3, 4>>
    /\ ranker.needed = 2
    /\ ranker.competitors[1] = 4
    /\ ranker.competitors[2] = 3

\* C30: whatever orderings rank is given, it returns false after at most
\* n * (n - 1) / 2 calls.
C30_RankCallsBound ==
    LET n == Len(ranker.competitors)
    IN /\ rankLog.returns # "panic"
       /\ rankLog.calls <= (n * (n - 1)) \div 2
       /\ rankLog.calls = (n * (n - 1)) \div 2 => rankLog.returns = "false"

\* rank returned false at its sixth call on four competitors.
C30_Witness ==
    /\ Len(ranker.competitors) = 4
    /\ rankLog.calls = 6
    /\ rankLog.returns = "false"

(* ------------------------------ ClampedF32 ----------------------------- *)

\* ClampedF32::min() and max(), in Fine-ths.
ClampedMin == (0 - MaxClamp) * Fine

ClampedMax == MaxClamp * Fine

\* ClampedF32::new(f)
ClampedNew(f) == Clamp(f, ClampedMin, ClampedMax)

\* Crossover for ClampedF32: the three arms of the match.
ClampedCrossover(a, b) == {a, b, (a + b) \div 2}

\* Mutate for ClampedF32: delta = max(self.0 * rate, EPSILON), for a rate of
\* r / RateDen.
MutateDelta(v, r) == IF (v * r) \div RateDen > 1 THEN (v * r) \div RateDen ELSE 1

\* Mutate for ClampedF32: self.0 += clamp(drawn, min, max), for each value that
\* gen_range(-delta..=delta) can draw.
ClampedMutate(v, r) ==
    {v + Clamp(d, ClampedMin, ClampedMax) : d \in (0 - MutateDelta(v, r))..MutateDelta(v, r)}

\* The ClampedF32 that new and gen make.
InRange == ClampedMin..ClampedMax

\* ClampedF32::new on any f32, or gen.
InitClamp ==
    /\ \/ \E f \in (ClampedMin - Fine)..(ClampedMax + Fine) :
            /\ clamped = ClampedNew(f)
            /\ clampLog = <<"new">>
       \/ \E f \in InRange :
            /\ clamped = ClampedNew(f)
            /\ clampLog = <<"gen">>
    /\ width = 0
    /\ height = 0
    /\ ResolveIdle
    /\ TickIdle
    /\ BesidesClampIdle

\* crossover with another ClampedF32, as Polynomial::crossover's callers make.
ClampCrossover ==
    /\ Len(clampLog) <= MaxClampOps
    /\ \E other \in InRange : clamped' \in ClampedCrossover(clamped, other)
    /\ clampLog' = Append(clampLog, "crossover")
    /\ UNCHANGED <<width, height, resolveVars, tickVars, besidesClamp>>

\* mutate, as Polynomial::mutate calls it for each coefficient, at a rate of
\* 0, 1/RateDen .. 1.
ClampMutate ==
    /\ Len(clampLog) <= MaxClampOps
    /\ \E r \in 0..RateDen : clamped' \in ClampedMutate(clamped, r)
    /\ clampLog' = Append(clampLog, "mutate")
    /\ UNCHANGED <<width, height, resolveVars, tickVars, besidesClamp>>

NextClamp == ClampCrossover \/ ClampMutate

SpecClamp == InitClamp /\ [][NextClamp]_vars

\* C23: the value of a ClampedF32 lies in [MIN / DENOM, MAX / DENOM] after new
\* or gen and after any sequence of crossover and mutate.
C23_ClampedInRange == clamped >= ClampedMin /\ clamped <= ClampedMax

\* The same without mutate: new, gen and crossover keep the value in range.
C23_InRangeWithoutMutate ==
    (\A k \in 1..Len(clampLog) : clampLog[k] # "mutate") =>
        (clamped >= ClampedMin /\ clamped <= ClampedMax)

(* --------------------------- Config::crossover ------------------------- *)

\* The f32 of the Configs crossed.
Numbers == {0, 2 * MaxNumber}

\* The Polynomials of the Configs crossed.
Polynomials == {<<0>>, <<2 * MaxNumber>>, <<0, 2 * MaxNumber>>} \cap
               UNION {[1..n -> Numbers] : n \in 1..MaxCoeffs}

\* The Configs crossed: the two thresholds, one of the other scalars, one of
\* the two weight arrays and one of the nine polynomials (the other fields of
\* each kind are crossed by the same expressions).
CrossedConfigs ==
    [air_to_water_saturation_threshold : Numbers,
     water_to_air_saturation_threshold : Numbers,
     saturation_diffusion_rate : Numbers,
     neighbor_attraction_weights : [1..MaxWeights -> Numbers],
     air_density : Polynomials]

\* Polynomial::crossover (config.rs): every result the random draws allow.
PolynomialCrossover(p, q) ==
    LET min == IF Len(p) < Len(q) THEN Len(p) ELSE Len(q)
        max == IF Len(p) < Len(q) THEN Len(q) ELSE Len(p)
        At(i) == IF i > Len(p) THEN {q[i]}
                 ELSE IF i > Len(q) THEN {p[i]}
                 ELSE {p[i], q[i], (p[i] + q[i]) \div 2}
    IN UNION {{r \in [1..len -> 0..(2 * MaxNumber)] : \A i \in 1..len : r[i] \in At(i)} :
                len \in min..max}

\* crossover_f32_arrays: every result the random draws allow.
CrossoverArrays(a, b) == {r \in [DOMAIN a -> Numbers] : \A i \in DOMAIN a : r[i] \in {a[i], b[i]}}

\* Config::crossover: every Config the random draws allow.
ConfigCrossover(a, b) ==
    {[air_density |-> p,
      air_to_water_saturation_threshold |-> t1,
      saturation_diffusion_rate |-> r,
      water_to_air_saturation_threshold |-> t2,
      neighbor_attraction_weights |-> w] :
        p \in PolynomialCrossover(a.air_density, b.air_density),
        t1 \in {a.air_to_water_saturation_threshold, b.water_to_air_saturation_threshold},
        r \in {a.saturation_diffusion_rate, b.saturation_diffusion_rate},
        t2 \in {a.water_to_air_saturation_threshold, b.water_to_air_saturation_threshold},
        w \in CrossoverArrays(a.neighbor_attraction_weights, b.neighbor_attraction_weights)}

\* Two Configs, not crossed yet.
InitCross ==
    /\ \E a \in CrossedConfigs, b \in CrossedConfigs : parents = <<a, b>>
    /\ crossed = <<>>
    /\ width = 0
    /\ height = 0
    /\ ResolveIdle
    /\ TickIdle
    /\ BesidesCrossIdle

\* a.crossover(&b)
Crossover ==
    /\ crossed = <<>>
    /\ \E c \in ConfigCrossover(parents[1], parents[2]) : crossed' = <<c>>
    /\ UNCHANGED <<parents, width, height, resolveVars, tickVars, besidesCross>>

NextCross == Crossover

SpecCross == InitCross /\ [][NextCross]_vars

\* C24: every scalar field and array element of crossover(a, b) is that of the
\* same field (and index) of a or of b, every polynomial is the crossover of
\* the same field of a and b; so crossover(a, a) = a.
C24_CrossoverFieldwise ==
    crossed # <<>> =>
        LET a == parents[1]
            b == parents[2]
            c == crossed[1]
        IN /\ c.air_to_water_saturation_threshold
                \in {a.air_to_water_saturation_threshold, b.air_to_water_saturation_threshold}
           /\ c.water_to_air_saturation_threshold
                \in {a.water_to_air_saturation_threshold, b.water_to_air_saturation_threshold}
           /\ c.saturation_diffusion_rate
                \in {a.saturation_diffusion_rate, b.saturation_diffusion_rate}
           /\ \A i \in 1..MaxWeights :
                c.neighbor_attraction_weights[i]
                    \in {a.neighbor_attraction_weights[i], b.neighbor_attraction_weights[i]}
           /\ c.air_density \in PolynomialCrossover(a.air_density, b.air_density)
           /\ a = b => c = a

\* The same for every field but air_to_water_saturation_threshold.
C24_PolynomialsAndOthers ==
    crossed # <<>> =>
        LET a == parents[1]
            b == parents[2]
            c == crossed[1]
        IN /\ c.water_to_air_saturation_threshold
                \in {a.water_to_air_saturation_threshold, b.water_to_air_saturation_threshold}
           /\ c.saturation_diffusion_rate
                \in {a.saturation_diffusion_rate, b.saturation_diffusion_rate}
           /\ \A i \in 1..MaxWeights :
                c.neighbor_attraction_weights[i]
                    \in {a.neighbor_attraction_weights[i], b.neighbor_attraction_weights[i]}
           /\ Len(c.air_density) >= 1
           /\ \A i \in 1..Len(c.air_density) :
                \/ i <= Len(a.air_density) /\ c.air_density[i] = a.air_density[i]
                \/ i <= Len(b.air_density) /\ c.air_density[i] = b.air_density[i]
                \/ /\ i <= Len(a.air_density) /\ i <= Len(b.air_density)
                   /\ 2 * c.air_density[i] = a.air_density[i] + b.air_density[i]
           /\ a = b => c.air_density = a.air_density

(* ------------------- push_move, many proposers at once ----------------- *)

\* The shapes of a crowded grid.
CrowdShapes ==
    {wh \in (1..MaxCrowd) \X (1..MaxCrowd) :
        wh[1] * wh[2] >= Capacity - 1 /\ wh[1] * wh[2] <= MaxCrowd}

\* The preference lists of a crowded grid: the first k sources in row-major
\* order name d and nothing else, the others have an empty list.
CrowdPreferences(w, h, d, k) ==
    [s \in Coords(w, h) |->
        IF \E i \in 1..k : Enumerate(w, h)[i] = s THEN <<d>> ELSE <<>>]

\* A crowded grid handed to reduce_potential_moves, nothing pushed yet.
InitCrowd ==
    /\ \E wh \in CrowdShapes :
         \E d \in Coords(wh[1], wh[2]), k \in (Capacity - 1)..(wh[1] * wh[2]) :
            crowd = [w |-> wh[1], h |-> wh[2], dest |-> d,
                     preferences |-> CrowdPreferences(wh[1], wh[2], d, k)]
    /\ pushed = <<>>
    /\ width = 0
    /\ height = 0
    /\ ResolveIdle
    /\ TickIdle
    /\ BesidesCrowdIdle

\* The first pass of the loop over potential_moves.enumerate() in
\* reduce_potential_moves: every source with a current choice is pushed into
\* the MoveConflict of that choice; push_move panics on the push that finds
\* len at the length of candidates.
PushMoves ==
    /\ pushed = <<>>
    /\ LET cur == [s \in Coords(crowd.w, crowd.h) |-> 0]
       IN pushed' =
            <<[panicked |-> PushOverflows(crowd.w, crowd.h, crowd.preferences, cur),
               proposers |-> Len(Pushed(crowd.w, crowd.h, crowd.preferences, cur,
                                        crowd.dest))]>>
    /\ UNCHANGED <<crowd, width, height, resolveVars, tickVars, besidesCrowd>>

NextCrowd == PushMoves

SpecCrowd == InitCrowd /\ [][NextCrowd]_vars

\* C31: whatever the in-grid preference lists, all cells of a grid of more
\* than 25 cells naming one destination included, push_move does not write
\* past the end of candidates.
C31_PushWithinCapacity == pushed # <<>> => ~pushed[1].panicked

\* With at most 25 proposers of a destination push_move stays within
\* candidates.
C31_WithinCapacityUpTo25 ==
    (pushed # <<>> /\ pushed[1].proposers <= Capacity) => ~pushed[1].panicked

(* ------------------ the Ranker while a comparison is pending ----------- *)

\* Ranker::new on a vector of one competitor or more, with any needed from 1
\* up to one more than there are competitors.
InitRankFromOne ==
    /\ \E n \in 1..MaxCompetitors :
         \E competitors \in Bijections(1..n), needed \in 1..(n + 1) :
            /\ ranker = RankerNew(competitors, needed)
            /\ rankLog = [input |-> competitors, calls |-> 0, returns |-> "new"]
    /\ width = 0
    /\ height = 0
    /\ ResolveIdle
    /\ TickIdle
    /\ BesidesRankIdle

SpecRankFromOne == InitRankFromOne /\ [][NextRankAny]_vars

\* The partition on top of the stack.
Top(r) == r.remaining[Len(r.remaining)]

\* current() and pivot() are distinct indices of competitors inside the
\* partition on top of the stack, and the partitions on the stack are pairwise
\* disjoint.
PendingValid(r) ==
    /\ r.remaining # <<>>
    /\ Current(r) < Len(r.competitors)
    /\ Pivot(r) < Len(r.competitors)
    /\ Current(r) < Pivot(r)
    /\ Top(r)[1] <= Current(r)
    /\ Pivot(r) <= Top(r)[2]
    /\ \A a \in 1..Len(r.remaining), b \in 1..Len(r.remaining) :
          a < b => \/ r.remaining[a][2] < r.remaining[b][1]
                   \/ r.remaining[b][2] < r.remaining[a][1]

\* C35: for a Ranker built from a non-empty vector with needed >= 1, while a
\* comparison is pending (before the first rank call and after each rank call
\* that returned true) current() and pivot() are valid, distinct indices with
\* current() < pivot(), inside the partition on top of the stack, and the
\* partitions on the stack are pairwise disjoint.
C35_PendingComparisonValid == RankPending => PendingValid(ranker)

\* The same for a Ranker built from two competitors or more.
C35_ValidFromTwoCompetitors ==
    (RankPending /\ Len(ranker.competitors) >= 2) => PendingValid(ranker)

(* --------------------------- CompetingConfigs -------------------------- *)

\* CompetingConfigs::new
CompetingNew(competitors) ==
    [i |-> 0, j |-> 0, remaining |-> <<<<0, Len(competitors) - 1>>>>,
     competitors |-> competitors]

\* CompetingConfigs::rank, the index it swaps with the end of the partition
\* that has become current.
Mid(start, end) == ((end + 1) - start) \div 2

\* CompetingConfigs::rank: the CompetingConfigs afterwards, what the call
\* returns, and the pivot-selection swap it made: <<start, mid, end>>.
CompetingRanked(r, ordering) ==
    LET greater == ordering = "Greater"
        c1 == IF greater THEN Swapped(r.competitors, r.i, r.j) ELSE r.competitors
        i1 == IF greater THEN r.i + 1 ELSE r.i
        j1 == r.j + 1
    IN IF greater /\ SwapPanics(r.competitors, r.i, r.j)
       THEN [ranker |-> r, returns |-> "panic", swap |-> <<>>]
       ELSE IF j1 # Pivot(r)
       THEN [ranker |-> [r EXCEPT !.competitors = c1, !.i = i1, !.j = j1],
             returns |-> "true", swap |-> <<>>]
       ELSE LET start == r.remaining[Len(r.remaining)][1]
                end == r.remaining[Len(r.remaining)][2]
                popped == SubSeq(r.remaining, 1, Len(r.remaining) - 1)
                left == IF start + 1 < i1
                        THEN Append(popped, <<start, i1 - 1>>) ELSE popped
                right == IF i1 + 1 < end
                         THEN Append(left, <<i1 + 1, end>>) ELSE left
                c2 == Swapped(c1, i1, end)
            IN IF SwapPanics(c1, i1, end)
               THEN [ranker |-> r, returns |-> "panic", swap |-> <<>>]
               ELSE IF right # <<>>
               THEN LET top == right[Len(right)]
                        mid == Mid(top[1], top[2])
                    IN IF SwapPanics(c2, mid, top[2])
                       THEN [ranker |-> r, returns |-> "panic", swap |-> <<>>]
                       ELSE [ranker |-> [r EXCEPT !.competitors = Swapped(c2, mid, top[2]),
                                                  !.remaining = right,
                                                  !.i = top[1],
                                                  !.j = top[1]],
                             returns |-> "true",
                             swap |-> <<top[1], mid, top[2]>>]
               ELSE [ranker |-> [r EXCEPT !.competitors = c2,
                                          !.remaining = right, !.i = i1, !.j = j1],
                     returns |-> "false", swap |-> <<>>]

\* CompetingConfigs::new on at least two competitors (setup).
InitCompete ==
    /\ \E competitors \in Competitors :
         /\ ranker = CompetingNew(competitors)
         /\ rankLog = [input |-> competitors, calls |-> 0, returns |-> "new",
                       swap |-> <<>>]
    /\ width = 0
    /\ height = 0
    /\ ResolveIdle
    /\ TickIdle
    /\ BesidesRankIdle

\* rank_selected with the comparison of competitors[current()] against
\* competitors[pivot()], while rank returns true.
CompeteCompared ==
    /\ RankPending
    /\ rankLog.calls < CallsFollowed(Len(ranker.competitors))
    /\ LET out == CompetingRanked(ranker,
                      Cmp(ranker.competitors[Current(ranker) + 1],
                          ranker.competitors[Pivot(ranker) + 1]))
       IN /\ ranker' = out.ranker
          /\ rankLog' = [rankLog EXCEPT !.calls = rankLog.calls + 1,
                                        !.returns = out.returns,
                                        !.swap = out.swap]
    /\ UNCHANGED <<width, height, resolveVars, tickVars, besidesRank>>

NextCompete == CompeteCompared

SpecCompete == InitCompete /\ [][NextCompete]_vars

\* When rank has returned false, competitors is the input in descending order.
C36_EndsDescending ==
    /\ rankLog.returns # "panic"
    /\ rankLog.calls = CallsFollowed(Len(ranker.competitors)) - 1 =>
          rankLog.returns = "false"
    /\ rankLog.returns = "false" =>
          \A k \in 1..Len(ranker.competitors) :
              ranker.competitors[k] = Len(rankLog.input) + 1 - k

\* The pivot-selection swap exchanges two elements of the partition that has
\* become current.
C36_SwapInsidePartition ==
    rankLog.swap # <<>> =>
        /\ rankLog.swap[1] <= rankLog.swap[2]
        /\ rankLog.swap[2] <= rankLog.swap[3]

\* C36: CompetingConfigs, given the comparison of competitors[current()]
\* against competitors[pivot()] until rank returns false, leaves competitors in
\* descending order (the greatest first, the better half in the first half),
\* and each of its pivot-selection swaps exchanges only elements inside the
\* partition that has just become current.
C36_CompetingConfigsSorts == C36_EndsDescending /\ C36_SwapInsidePartition

(* ------------------------- main.rs: State::update ---------------------- *)

MainShapes ==
    {<<1, h>> : h \in 1..MaxMainHeight} \cup {<<2, h>> : h \in 1..(MaxMainHeight - 2)}

\* The element seen through w.get(0, dy) of the 3x3 window at c: "None" past
\* the edge of the grid.
WindowElement(w, h, el, c, dy) ==
    IF WindowGet(w, h, c, <<0, dy>>) = None THEN "None"
    ELSE el[WindowGet(w, h, c, <<0, dy>>)]

\* intended_movements, the closure mapped over windows(3): the offset a tile
\* intends to move by.
IntendedOffset(w, h, el, c) ==
    LET above == WindowElement(w, h, el, c, -1)
        below == WindowElement(w, h, el, c, 1)
    IN CASE el[c] = "Air" ->
              (IF above \in {"Soil", "Water"} THEN <<0, -1>> ELSE <<0, 0>>)
         [] el[c] = "Soil" ->
              (IF below \in {"Air", "Water"} THEN <<0, 1>> ELSE <<0, 0>>)
         [] OTHER ->
              (CASE above = "None" /\ below = "None" -> <<0, 0>>
                 [] above = "None" /\ below # "None" ->
                      (IF below = "Air" THEN <<0, 1>> ELSE <<0, 0>>)
                 [] above # "None" /\ below = "None" ->
                      (IF above = "Soil" THEN <<0, -1>> ELSE <<0, 0>>)
                 [] OTHER ->
                      (CASE above = "Air" /\ below = "Air" -> <<0, 1>>
                         [] above = "Soil" /\ below \in {"Soil", "Water"} -> <<0, -1>>
                         [] above = "Water" /\ below = "Air" -> <<0, 1>>
                         [] OTHER -> <<0, 0>>))

\* intended_movements: the position each tile intends to move to.
IntendedMovements(w, h, el) ==
    [c \in Coords(w, h) |->
        <<c[1] + IntendedOffset(w, h, el, c)[1], c[2] + IntendedOffset(w, h, el, c)[2]>>]

\* find_conflicts: the sources recorded at destination d, in the order of
\* intended_movements.enumerate().  None has none, Resolved one, Conflict
\* two or more.
FindConflicts(w, h, im) ==
    [d \in Coords(w, h) |->
        SelectSeq(Enumerate(w, h), LAMBDA s : CellAt(w, h, im[s]) = d)]

\* find_conflicts unwraps None: an intended position lies outside the grid.
FindUnwrapsNone(w, h, im) == \E s \in Coords(w, h) : CellAt(w, h, im[s]) = None

\* The orders the elements of sequence c can be put in.
Arrangements(c) ==
    {q \in [1..Len(c) -> Range(c)] : \A i \in 1..Len(c) : \E k \in 1..Len(c) : q[k] = c[i]}

\* sort_unstable_by_key(|(x, y)| (*y, *x))
SortedByYX(c) ==
    CHOOSE q \in Arrangements(c) :
        \A i \in 1..Len(c), k \in 1..Len(c) :
            i < k => \/ q[i][2] < q[k][2]
                     \/ q[i][2] = q[k][2] /\ q[i][1] <= q[k][1]

\* The key of the second sort of resolve_conflicts.
ElementKey(e) == CASE e = "Air" -> -1 [] e = "Soil" -> 1 [] OTHER -> 0

\* sort_unstable_by_key on the element: every order it may leave tiles of one
\* element in.
SortedByElement(c, el) ==
    {q \in Arrangements(c) :
        \A i \in 1..Len(c), k \in 1..Len(c) :
            i < k => ElementKey(el[q[i]]) <= ElementKey(el[q[k]])}

\* gravity_slots that send every candidate to the contested destination again.
GravitySlotsContested(c, d) == [k \in 1..Len(c) |-> d]

\* gravity_slots of the conflict at d: the candidates' own positions, top first.
GravitySlots(c, d) == SortedByYX(c)

\* resolve_conflicts at the destinations of ds: the intended movements it may
\* leave, each candidate sent to the slot zipped with it.
RECURSIVE Redirected(_, _, _, _)
Redirected(ds, conf, el, im) ==
    IF ds = <<>> THEN {im}
    ELSE LET d == Head(ds)
             gravity_slots == GravitySlots(conf[d], d)
         IN UNION {Redirected(Tail(ds), conf, el,
                       [s \in DOMAIN im |->
                           IF \E k \in 1..Len(q) : q[k] = s
                           THEN gravity_slots[CHOOSE k \in 1..Len(q) : q[k] = s]
                           ELSE im[s]]) :
                     q \in SortedByElement(conf[d], el)}

\* State::gen of main.rs, on a small grid.
InitMain ==
    /\ \E wh \in MainShapes :
         /\ mainElements \in [Coords(wh[1], wh[2]) -> Element]
         /\ mainLog = [w |-> wh[1], h |-> wh[2], before |-> mainElements,
                       resolutions |-> <<>>, iters |-> 0, updates |-> 0, panic |-> ""]
    /\ intendedMovements = <<>>
    /\ mainPc = "idle"
    /\ width = 0
    /\ height = 0
    /\ ResolveIdle
    /\ TickIdle
    /\ BesidesMainIdle

\* State::update up to its loop: intended_movements.
BeginUpdate ==
    /\ mainPc = "idle"
    /\ mainLog.updates < MaxMainTicks
    /\ intendedMovements' = IntendedMovements(mainLog.w, mainLog.h, mainElements)
    /\ mainLog' = [mainLog EXCEPT !.before = mainElements, !.resolutions = <<>>,
                                  !.iters = 0, !.updates = mainLog.updates + 1]
    /\ mainPc' = "loop"
    /\ UNCHANGED <<mainElements, width, height, resolveVars, tickVars, besidesMain>>

\* One pass of the loop of State::update: find_conflicts, resolve_conflicts
\* and, when no conflict was found, the break and the Grid::new after it.
ConflictPass ==
    /\ mainPc = "loop"
    /\ mainLog.iters < MaxMainIters
    /\ UNCHANGED <<width, height, resolveVars, tickVars, besidesMain>>
    /\ LET w == mainLog.w
           h == mainLog.h
           conf == FindConflicts(w, h, intendedMovements)
           contested == SelectSeq(Enumerate(w, h), LAMBDA d : Len(conf[d]) >= 2)
       IN IF FindUnwrapsNone(w, h, intendedMovements)
          THEN /\ mainPc' = "panic"
               /\ mainLog' = [mainLog EXCEPT !.iters = mainLog.iters + 1,
                                             !.panic = "unwrap on None"]
               /\ UNCHANGED <<mainElements, intendedMovements>>
          ELSE IF contested # <<>>
          THEN /\ intendedMovements' \in
                     Redirected(contested, conf, mainElements, intendedMovements)
               /\ mainLog' = [mainLog EXCEPT !.iters = mainLog.iters + 1]
               /\ UNCHANGED <<mainElements, mainPc>>
          ELSE IF \E d \in Coords(w, h) : Len(conf[d]) = 0
          THEN /\ mainPc' = "panic"
               /\ mainLog' = [mainLog EXCEPT
                     !.iters = mainLog.iters + 1,
                     !.panic = "No cells should be empty after conflict resolution"]
               /\ UNCHANGED <<mainElements, intendedMovements>>
          ELSE /\ mainElements' = [d \in Coords(w, h) |-> mainElements[conf[d][1]]]
               /\ mainLog' = [mainLog EXCEPT !.iters = mainLog.iters + 1,
                                             !.resolutions = conf]
               /\ mainPc' = "idle"
               /\ UNCHANGED intendedMovements

NextMain == BeginUpdate \/ ConflictPass

SpecMain == InitMain /\ [][NextMain]_vars

\* The cells of the grid of main.rs.
MainCoords == Coords(mainLog.w, mainLog.h)

\* C37: in State::update of main.rs the conflict loop ends (within two
\* passes), never panics, and leaves every destination with exactly one
\* source; the new grid holds at each position the old tile of its source,
\* every old tile once, each in the column it was in.
C37_MainUpdateResolves ==
    /\ mainPc # "panic"
    /\ mainLog.iters <= 2
    /\ (mainPc = "loop" /\ mainLog.iters = 2) =>
          \A d \in MainCoords :
              Len(FindConflicts(mainLog.w, mainLog.h, intendedMovements)[d]) = 1
    /\ (mainPc = "idle" /\ mainLog.updates > 0) =>
          /\ \A d \in MainCoords :
                /\ Len(mainLog.resolutions[d]) = 1
                /\ mainLog.resolutions[d][1] \in MainCoords
                /\ mainLog.resolutions[d][1][1] = d[1]
                /\ mainElements[d] = mainLog.before[mainLog.resolutions[d][1]]
          /\ \A s \in MainCoords :
                Cardinality({d \in MainCoords : mainLog.resolutions[d][1] = s}) = 1

\* C37 witness: the second update has ended on a grid of one column; its loop
\* needed a second pass and a tile has moved two rows.
C37_Witness ==
    /\ mainPc = "idle"
    /\ mainLog.updates = MaxMainTicks
    /\ mainLog.w = 1
    /\ mainLog.iters = 2
    /\ \E d \in MainCoords :
          mainLog.resolutions[d][1][2] - d[2] \in {-2, 2}

=============================================================================
